---- MODULE Spec2Model ----
(***************************************************************************)
(* zip-encoding-fixer: the filename repair engine (fixFilenameEncoding),   *)
(* the path classifier and the three archive operations analyzeZip,        *)
(* processZip and createZipFromFiles of the zip utility module.            *)
(*                                                                         *)
(* A JavaScript string is a sequence of UTF-16 code units (naturals), a    *)
(* Uint8Array a sequence of naturals below 256.  TextEncoder and the       *)
(* three TextDecoders are modelled by the algorithms of the WHATWG         *)
(* Encoding standard; the code-point indexes of the legacy encodings are   *)
(* given for every lead/trail pair over ModelBytes, and a lookup outside   *)
(* that excerpt is an evaluation error, never a silent "unassigned".       *)
(***************************************************************************)
EXTENDS Integers, Sequences, FiniteSets, TLC

VARIABLES
  archive,   \* the source archive: entry names in central-directory order
  aRes,      \* settled promise of analyzeZip(archive), or NoCall
  pRes,      \* settled promise of processZip / createZipFromFiles, or NoCall
  rBytes,    \* raw name bytes of an entry (repair engine track)
  rIn,       \* the name string handed to fixFilenameEncoding
  rOut,      \* fixFilenameEncoding(rIn), or NoCall
  rAgain,    \* fixFilenameEncoding(rOut.fixed), or NoCall
  cPath,     \* the path handed to the path classifier
  cOut,      \* the verdicts of the classifier on cPath, or NoCall
  dIn,       \* the string or the bytes handed to a detector
  dOut,      \* the verdict of the detector on dIn, or NoCall
  page,      \* the state of the page component (its useState cells)
  pending,   \* the promises the page awaits, in the order they were created
  nextId,    \* the number of File objects handed to the page so far
  analyzedFiles, \* the File objects whose analyzeZip promise resolved
  saved      \* the blobs handed to saveAs

detectVars == <<dIn, dOut>>
pageVars == <<page, pending, nextId, analyzedFiles, saved>>

vars == <<archive, aRes, pRes, rBytes, rIn, rOut, rAgain, cPath, cOut, detectVars, pageVars>>

-----------------------------------------------------------------------------
(* Bounds of the model *)

\* longest name string drawn for the repair engine
MaxNameLen == 3
\* longest raw byte sequence drawn for the repair engine
MaxByteLen == 3
\* most entries of an archive drawn from PathPool
MaxEntries == 2
\* most damaged names in an archive of the DamagedArchives family
MaxDamaged == 5
\* most tokens of a path drawn for the path classifier
MaxTokens == 3
\* most File and FileList objects handed to the page
MaxFiles == 2
\* most promises the page awaits at a time
MaxPending == 2
\* most option checkboxes of the page away from their initial value at a time
MaxToggles == 1

-----------------------------------------------------------------------------
(* Strings *)

RECURSIVE Rep(_, _)
\* String.prototype.repeat for a one-unit string
Rep(c, n) == IF n = 0 THEN <<>> ELSE <<c>> \o Rep(c, n - 1)

\* s.startsWith(p)
startsWith(s, p) == Len(p) <= Len(s) /\ SubSeq(s, 1, Len(p)) = p

\* s.endsWith(p)
endsWith(s, p) == Len(p) <= Len(s) /\ SubSeq(s, Len(s) - Len(p) + 1, Len(s)) = p

\* s.includes(p)
includes(s, p) ==
  \E i \in 1..(Len(s) - Len(p) + 1) : SubSeq(s, i, i + Len(p) - 1) = p

RECURSIVE splitFrom(_, _, _, _)
splitFrom(s, sep, i, cur) ==
  IF i > Len(s) THEN <<cur>>
  ELSE IF s[i] = sep THEN <<cur>> \o splitFrom(s, sep, i + 1, <<>>)
  ELSE splitFrom(s, sep, i + 1, Append(cur, s[i]))

\* s.split(sep) for a one-unit separator
split(s, sep) == splitFrom(s, sep, 1, <<>>)

\* '/', '.', '__MACOSX/', '/__MACOSX/', '.DS_Store', '/.DS_Store'
SLASH == <<47>>
DOT == <<46>>
MACOSX_DIR == <<95, 95, 77, 65, 67, 79, 83, 88, 47>>
DS_STORE == <<46, 68, 83, 95, 83, 116, 111, 114, 101>>

-----------------------------------------------------------------------------
(* Code-point indexes (excerpt over ModelBytes) *)

\* the byte values whose lead/trail pairs the index excerpts cover
ModelBytes == {46, 67, 128, 133, 134, 161, 176, 189, 191, 194, 195, 198, 239}

IndexEUCKRExcerpt ==
  {
    <<762, 44994>>, <<828, 45065>>, <<829, 45066>>, <<856, 45099>>, <<871, 45114>>, <<884, 45131>>,
    <<886, 45135>>, <<889, 45138>>, <<890, 45142>>, <<893, 45147>>, <<934, 45193>>, <<952, 45223>>,
    <<1018, 45301>>, <<1019, 45302>>, <<1046, 45338>>, <<1061, 45361>>, <<1074, 45382>>, <<1076, 45385>>,
    <<1079, 45388>>, <<1080, 45389>>, <<1083, 45394>>, <<1124, 45445>>, <<6082, 51367>>, <<6148, 51434>>,
    <<6149, 51435>>, <<6176, 12288>>, <<6191, 8220>>, <<6204, 12305>>, <<6206, 215>>, <<6209, 8804>>,
    <<6210, 8805>>, <<6213, 176>>, <<6254, 8765>>, <<8932, 52892>>, <<8998, 52954>>, <<8999, 52955>>,
    <<9026, 44032>>, <<9041, 44057>>, <<9054, 44089>>, <<9056, 44096>>, <<9059, 44116>>, <<9060, 44120>>,
    <<9063, 44145>>, <<9104, 44260>>, <<11402, 54234>>, <<11468, 54299>>, <<11469, 54300>>, <<11496, 49711>>,
    <<11511, 49788>>, <<11524, 49836>>, <<11526, 49844>>, <<11529, 49849>>, <<11530, 49884>>, <<11533, 49891>>,
    <<11574, 50137>>, <<11782, 54432>>, <<11848, 54490>>, <<11849, 54491>>, <<11876, 50640>>, <<11891, 50684>>,
    <<11904, 50713>>, <<11906, 50716>>, <<11909, 50728>>, <<11910, 50732>>, <<11913, 50736>>, <<11954, 50872>>,
    <<12352, 54733>>, <<12418, 54810>>, <<12419, 54811>>, <<12446, 51669>>, <<12461, 51704>>, <<12474, 51789>>,
    <<12476, 51796>>, <<12479, 51807>>, <<12480, 51808>>, <<12483, 51837>>, <<12524, 52237>>, <<12542, 54847>>,
    <<12608, 54919>>, <<12609, 54920>>, <<12636, 52284>>, <<12651, 52328>>, <<12664, 52405>>, <<12666, 52412>>,
    <<12669, 52423>>, <<12670, 52425>>, <<12673, 52452>>, <<12714, 52729>>, <<13112, 55183>>, <<13206, 53860>>,
    <<13221, 53948>>, <<13234, 54001>>, <<13236, 54008>>, <<13239, 54019>>, <<13240, 54021>>, <<13243, 54030>>,
    <<13284, 54212>>, <<20996, 29006>>, <<21011, 37523>>, <<21024, 31680>>, <<21026, 21344>>, <<21029, 28472>>,
    <<21030, 28857>>, <<21033, 39822>>, <<21074, 31243>>
  }
IndexEUCKRUnassigned ==
  {
    823, 1013, 6143, 8993, 11463, 11843, 12413, 12603, 13173, 13178, 13179, 20902,
    20963, 20968, 20969
  }
IndexJIS0208Excerpt ==
  {}
IndexJIS0208Unassigned ==
  {
    755, 815, 820, 821, 848, 863, 876, 878, 881, 882, 885, 926,
    943, 1003, 1008, 1009, 1036, 1051, 1064, 1066, 1069, 1070, 1073, 1114,
    8651, 8711, 8716, 8717, 8744, 8759, 8772, 8774, 8777, 8778, 8781, 8822
  }
IndexGB18030Excerpt ==
  {
    <<763, 21268>>, <<823, 21392>>, <<828, 21398>>, <<829, 21399>>, <<856, 21440>>, <<871, 21470>>,
    <<884, 21524>>, <<886, 21529>>, <<889, 21538>>, <<890, 21540>>, <<893, 21552>>, <<934, 21635>>,
    <<953, 21680>>, <<1013, 21800>>, <<1018, 21812>>, <<1019, 21813>>, <<1046, 21854>>, <<1061, 21882>>,
    <<1074, 21911>>, <<1076, 21915>>, <<1079, 21921>>, <<1080, 21922>>, <<1083, 21925>>, <<1124, 21997>>,
    <<6083, 58569>>, <<6143, 58629>>, <<6148, 58634>>, <<6149, 58635>>, <<6176, 12288>>, <<6191, 8220>>,
    <<6204, 12311>>, <<6206, 12305>>, <<6209, 247>>, <<6210, 8758>>, <<6213, 8721>>, <<6254, 9733>>,
    <<8933, 30280>>, <<8993, 30364>>, <<8998, 30369>>, <<8999, 30370>>, <<9026, 21834>>, <<9041, 38797>>,
    <<9054, 25942>>, <<9056, 32753>>, <<9059, 22885>>, <<9060, 25034>>, <<9063, 25420>>, <<9104, 24110>>,
    <<11403, 32058>>, <<11463, 32120>>, <<11468, 32125>>, <<11469, 32126>>, <<11496, 20581>>, <<11511, 26728>>,
    <<11524, 27975>>, <<11526, 23047>>, <<11529, 38128>>, <<11530, 30699>>, <<11533, 29409>>, <<11574, 26020>>,
    <<11783, 32254>>, <<11843, 32314>>, <<11848, 32320>>, <<11849, 32322>>, <<11876, 20426>>, <<11891, 22570>>,
    <<11904, 25335>>, <<11906, 38752>>, <<11909, 26607>>, <<11910, 26869>>, <<11913, 31185>>, <<11954, 21281>>,
    <<12353, 32746>>, <<12413, 32857>>, <<12418, 32863>>, <<12419, 32864>>, <<12446, 38534>>, <<12461, 25523>>,
    <<12474, 38470>>, <<12476, 39540>>, <<12479, 20387>>, <<12480, 26053>>, <<12483, 32533>>, <<12524, 22043>>,
    <<12543, 32901>>, <<12603, 33036>>, <<12608, 33052>>, <<12609, 33053>>, <<12636, 35881>>, <<12651, 20882>>,
    <<12664, 23186>>, <<12666, 27599>>, <<12669, 23504>>, <<12670, 22969>>, <<12673, 38391>>, <<12714, 34065>>,
    <<13113, 33389>>, <<13173, 33530>>, <<13178, 33536>>, <<13179, 33546>>, <<13206, 21860>>, <<13221, 29922>>,
    <<13234, 24179>>, <<13236, 29942>>, <<13239, 22369>>, <<13240, 27900>>, <<13243, 30772>>, <<13284, 39569>>,
    <<20903, 39026>>, <<20963, 39141>>, <<20968, 39148>>, <<20969, 39149>>, <<20996, 38121>>, <<21011, 38151>>,
    <<21024, 38173>>, <<21026, 38175>>, <<21029, 38187>>, <<21030, 38185>>, <<21033, 38194>>, <<21074, 38258>>
  }
IndexGB18030Unassigned ==
  {}
IndexGB18030Ranges ==
  {
    <<0, 128>>, <<36, 165>>, <<38, 169>>, <<45, 178>>, <<50, 184>>, <<81, 216>>, <<89, 226>>,
    <<95, 235>>, <<96, 238>>, <<100, 244>>, <<103, 248>>, <<104, 251>>, <<105, 253>>, <<109, 258>>,
    <<126, 276>>, <<133, 284>>, <<148, 300>>, <<172, 325>>, <<175, 329>>, <<179, 334>>, <<208, 364>>,
    <<306, 463>>, <<307, 465>>, <<308, 467>>, <<309, 469>>, <<310, 471>>, <<311, 473>>, <<312, 475>>,
    <<313, 477>>, <<341, 506>>, <<428, 594>>, <<443, 610>>, <<544, 712>>, <<545, 716>>, <<558, 730>>,
    <<741, 930>>, <<742, 938>>, <<749, 962>>, <<750, 970>>, <<805, 1026>>, <<819, 1104>>, <<820, 1106>>,
    <<7922, 8209>>, <<7924, 8215>>, <<7925, 8218>>, <<7927, 8222>>, <<7934, 8231>>, <<7943, 8241>>, <<7944, 8244>>,
    <<7945, 8246>>, <<7950, 8252>>, <<8062, 8365>>, <<8148, 8452>>, <<8149, 8454>>, <<8152, 8458>>, <<8164, 8471>>,
    <<8174, 8482>>, <<8236, 8556>>, <<8240, 8570>>, <<8262, 8596>>, <<8264, 8602>>, <<8374, 8713>>, <<8380, 8720>>,
    <<8381, 8722>>, <<8384, 8726>>, <<8388, 8731>>, <<8390, 8737>>, <<8392, 8740>>, <<8393, 8742>>, <<8394, 8748>>,
    <<8396, 8751>>, <<8401, 8760>>, <<8406, 8766>>, <<8416, 8777>>, <<8419, 8781>>, <<8424, 8787>>, <<8437, 8802>>,
    <<8439, 8808>>, <<8445, 8816>>, <<8482, 8854>>, <<8485, 8858>>, <<8496, 8870>>, <<8521, 8896>>, <<8603, 8979>>,
    <<8936, 9322>>, <<8946, 9372>>, <<9046, 9548>>, <<9050, 9588>>, <<9063, 9616>>, <<9066, 9622>>, <<9076, 9634>>,
    <<9092, 9652>>, <<9100, 9662>>, <<9108, 9672>>, <<9111, 9676>>, <<9113, 9680>>, <<9131, 9702>>, <<9162, 9735>>,
    <<9164, 9738>>, <<9218, 9793>>, <<9219, 9795>>, <<11329, 11906>>, <<11331, 11909>>, <<11334, 11913>>, <<11336, 11917>>,
    <<11346, 11928>>, <<11361, 11944>>, <<11363, 11947>>, <<11366, 11951>>, <<11370, 11956>>, <<11372, 11960>>, <<11375, 11964>>,
    <<11389, 11979>>, <<11682, 12284>>, <<11686, 12292>>, <<11687, 12312>>, <<11692, 12319>>, <<11694, 12330>>, <<11714, 12351>>,
    <<11716, 12436>>, <<11723, 12447>>, <<11725, 12535>>, <<11730, 12543>>, <<11736, 12586>>, <<11982, 12842>>, <<11989, 12850>>,
    <<12102, 12964>>, <<12336, 13200>>, <<12348, 13215>>, <<12350, 13218>>, <<12384, 13253>>, <<12393, 13263>>, <<12395, 13267>>,
    <<12397, 13270>>, <<12510, 13384>>, <<12553, 13428>>, <<12851, 13727>>, <<12962, 13839>>, <<12973, 13851>>, <<13738, 14617>>,
    <<13823, 14703>>, <<13919, 14801>>, <<13933, 14816>>, <<14080, 14964>>, <<14298, 15183>>, <<14585, 15471>>, <<14698, 15585>>,
    <<15583, 16471>>, <<15847, 16736>>, <<16318, 17208>>, <<16434, 17325>>, <<16438, 17330>>, <<16481, 17374>>, <<16729, 17623>>,
    <<17102, 17997>>, <<17122, 18018>>, <<17315, 18212>>, <<17320, 18218>>, <<17402, 18301>>, <<17418, 18318>>, <<17859, 18760>>,
    <<17909, 18811>>, <<17911, 18814>>, <<17915, 18820>>, <<17916, 18823>>, <<17936, 18844>>, <<17939, 18848>>, <<17961, 18872>>,
    <<18664, 19576>>, <<18703, 19620>>, <<18814, 19738>>, <<18962, 19887>>, <<19043, 40870>>, <<33469, 59244>>, <<33470, 59336>>,
    <<33471, 59367>>, <<33484, 59413>>, <<33485, 59417>>, <<33490, 59423>>, <<33497, 59431>>, <<33501, 59437>>, <<33505, 59443>>,
    <<33513, 59452>>, <<33520, 59460>>, <<33536, 59478>>, <<33550, 59493>>, <<37845, 63789>>, <<37921, 63866>>, <<37948, 63894>>,
    <<38029, 63976>>, <<38038, 63986>>, <<38064, 64016>>, <<38065, 64018>>, <<38066, 64021>>, <<38069, 64025>>, <<38075, 64034>>,
    <<38076, 64037>>, <<38078, 64042>>, <<39108, 65074>>, <<39109, 65093>>, <<39113, 65107>>, <<39114, 65112>>, <<39115, 65127>>,
    <<39116, 65132>>, <<39265, 65375>>, <<39394, 65510>>, <<189000, 65536>>
  }


\* index EUC-KR: <<code point>>, or <<>> where the index has no entry
IndexEUCKR(pointer) ==
  IF pointer \in IndexEUCKRUnassigned THEN <<>>
  ELSE <<(CHOOSE e \in IndexEUCKRExcerpt : e[1] = pointer)[2]>>

\* index jis0208
IndexJIS0208(pointer) ==
  IF pointer \in IndexJIS0208Unassigned THEN <<>>
  ELSE <<(CHOOSE e \in IndexJIS0208Excerpt : e[1] = pointer)[2]>>

\* index gb18030
IndexGB18030(pointer) ==
  IF pointer \in IndexGB18030Unassigned THEN <<>>
  ELSE <<(CHOOSE e \in IndexGB18030Excerpt : e[1] = pointer)[2]>>

\* index gb18030 ranges code point
IndexGB18030RangesCodePoint(pointer) ==
  IF (pointer > 39419 /\ pointer < 189000) \/ pointer > 1237575 THEN <<>>
  ELSE IF pointer = 7457 THEN <<59335>>
  ELSE LET below == {e \in IndexGB18030Ranges : e[1] <= pointer}
           r == CHOOSE e \in below : \A f \in below : f[1] <= e[1]
       IN <<r[2] + pointer - r[1]>>

-----------------------------------------------------------------------------
(* TextEncoder / TextDecoder *)

\* a decode that threw (fatal: true), caught as null
DecodeError == [ok |-> FALSE, str |-> <<>>]
Decoded(s) == [ok |-> TRUE, str |-> s]

\* the UTF-16 code units of a scalar value
CodeUnits(cp) ==
  IF cp < 65536 THEN <<cp>>
  ELSE <<55296 + ((cp - 65536) \div 1024), 56320 + ((cp - 65536) % 1024)>>

\* the UTF-8 bytes of a scalar value
Utf8Bytes(cp) ==
  IF cp < 128 THEN <<cp>>
  ELSE IF cp < 2048 THEN <<192 + (cp \div 64), 128 + (cp % 64)>>
  ELSE IF cp < 65536
    THEN <<224 + (cp \div 4096), 128 + ((cp \div 64) % 64), 128 + (cp % 64)>>
  ELSE <<240 + (cp \div 262144), 128 + ((cp \div 4096) % 64),
         128 + ((cp \div 64) % 64), 128 + (cp % 64)>>

RECURSIVE Utf8EncodeFrom(_, _)
Utf8EncodeFrom(s, i) ==
  IF i > Len(s) THEN <<>>
  ELSE IF s[i] >= 55296 /\ s[i] <= 56319 /\ i < Len(s)
          /\ s[i + 1] >= 56320 /\ s[i + 1] <= 57343
    THEN Utf8Bytes(65536 + (s[i] - 55296) * 1024 + (s[i + 1] - 56320))
           \o Utf8EncodeFrom(s, i + 2)
  ELSE IF s[i] >= 55296 /\ s[i] <= 57343
    THEN Utf8Bytes(65533) \o Utf8EncodeFrom(s, i + 1)
  ELSE Utf8Bytes(s[i]) \o Utf8EncodeFrom(s, i + 1)

\* new TextEncoder().encode(s)
TextEncoderEncode(s) == Utf8EncodeFrom(s, 1)

RECURSIVE EucKrDecodeFrom(_, _, _, _)
\* EUC-KR decoder, error mode fatal; lead = 0 is "no lead byte"
EucKrDecodeFrom(bytes, i, lead, out) ==
  IF i > Len(bytes) THEN (IF lead # 0 THEN DecodeError ELSE Decoded(out))
  ELSE LET byte == bytes[i] IN
    IF lead # 0
      THEN LET cp == IF byte >= 65 /\ byte <= 254
                       THEN IndexEUCKR((lead - 129) * 190 + (byte - 65))
                       ELSE <<>>
           IN IF cp # <<>>
                THEN EucKrDecodeFrom(bytes, i + 1, 0, out \o CodeUnits(cp[1]))
                ELSE DecodeError
    ELSE IF byte <= 127 THEN EucKrDecodeFrom(bytes, i + 1, 0, Append(out, byte))
    ELSE IF byte >= 129 /\ byte <= 254 THEN EucKrDecodeFrom(bytes, i + 1, byte, out)
    ELSE DecodeError

RECURSIVE ShiftJisDecodeFrom(_, _, _, _)
\* Shift_JIS decoder, error mode fatal
ShiftJisDecodeFrom(bytes, i, lead, out) ==
  IF i > Len(bytes) THEN (IF lead # 0 THEN DecodeError ELSE Decoded(out))
  ELSE LET byte == bytes[i] IN
    IF lead # 0
      THEN LET offset == IF byte < 127 THEN 64 ELSE 65
               leadOffset == IF lead < 160 THEN 129 ELSE 193
               pointer == (lead - leadOffset) * 188 + byte - offset
               cp == IF (byte >= 64 /\ byte <= 126) \/ (byte >= 128 /\ byte <= 252)
                       THEN IF pointer >= 8836 /\ pointer <= 10715
                              THEN <<57344 - 8836 + pointer>>
                              ELSE IndexJIS0208(pointer)
                       ELSE <<>>
           IN IF cp # <<>>
                THEN ShiftJisDecodeFrom(bytes, i + 1, 0, out \o CodeUnits(cp[1]))
                ELSE DecodeError
    ELSE IF byte <= 128 THEN ShiftJisDecodeFrom(bytes, i + 1, 0, Append(out, byte))
    ELSE IF byte >= 161 /\ byte <= 223
      THEN ShiftJisDecodeFrom(bytes, i + 1, 0, Append(out, 65377 - 161 + byte))
    ELSE IF (byte >= 129 /\ byte <= 159) \/ (byte >= 224 /\ byte <= 252)
      THEN ShiftJisDecodeFrom(bytes, i + 1, byte, out)
    ELSE DecodeError

RECURSIVE Gb18030DecodeFrom(_, _, _, _, _, _)
\* gb18030 decoder (the decoder of GBK), error mode fatal
Gb18030DecodeFrom(bytes, i, first, second, third, out) ==
  IF i > Len(bytes)
    THEN (IF first # 0 \/ second # 0 \/ third # 0 THEN DecodeError ELSE Decoded(out))
  ELSE LET byte == bytes[i] IN
    IF third # 0
      THEN IF byte < 48 \/ byte > 57 THEN DecodeError
           ELSE LET cp == IndexGB18030RangesCodePoint(
                            (first - 129) * (10 * 126 * 10) + (second - 48) * (10 * 126)
                              + (third - 129) * 10 + byte - 48)
                IN IF cp = <<>> THEN DecodeError
                   ELSE Gb18030DecodeFrom(bytes, i + 1, 0, 0, 0, out \o CodeUnits(cp[1]))
    ELSE IF second # 0
      THEN IF byte >= 129 /\ byte <= 254
             THEN Gb18030DecodeFrom(bytes, i + 1, first, second, byte, out)
             ELSE DecodeError
    ELSE IF first # 0
      THEN IF byte >= 48 /\ byte <= 57
             THEN Gb18030DecodeFrom(bytes, i + 1, first, byte, 0, out)
             ELSE LET offset == IF byte < 127 THEN 64 ELSE 65
                      cp == IF (byte >= 64 /\ byte <= 126) \/ (byte >= 128 /\ byte <= 254)
                              THEN IndexGB18030((first - 129) * 190 + (byte - offset))
                              ELSE <<>>
                  IN IF cp # <<>>
                       THEN Gb18030DecodeFrom(bytes, i + 1, 0, 0, 0, out \o CodeUnits(cp[1]))
                       ELSE DecodeError
    ELSE IF byte <= 127 THEN Gb18030DecodeFrom(bytes, i + 1, 0, 0, 0, Append(out, byte))
    ELSE IF byte = 128 THEN Gb18030DecodeFrom(bytes, i + 1, 0, 0, 0, Append(out, 8364))
    ELSE IF byte >= 129 /\ byte <= 254
      THEN Gb18030DecodeFrom(bytes, i + 1, byte, 0, 0, out)
    ELSE DecodeError

-----------------------------------------------------------------------------
(* Mojibake detector and repair engine *)

RECURSIVE eucKrPairsFrom_HighTrail(_, _)
\* the scan with the trail byte range 0xA1-0xFE in place of 0x41-0xFE
eucKrPairsFrom_HighTrail(bytes, i) ==
  IF i > Len(bytes) - 1 THEN 0
  ELSE IF bytes[i] >= 129 /\ bytes[i] <= 254
          /\ bytes[i + 1] >= 161 /\ bytes[i + 1] <= 254
    THEN 1 + eucKrPairsFrom_HighTrail(bytes, i + 2)
  ELSE eucKrPairsFrom_HighTrail(bytes, i + 1)

RECURSIVE eucKrPairsFrom(_, _)
\* the scan of isLikelyEUCKR from (1-based) position i: the pairs counted
eucKrPairsFrom(bytes, i) ==
  IF i > Len(bytes) - 1 THEN 0
  ELSE IF bytes[i] >= 129 /\ bytes[i] <= 254
          /\ bytes[i + 1] >= 65 /\ bytes[i + 1] <= 254
    THEN 1 + eucKrPairsFrom(bytes, i + 2)
  ELSE eucKrPairsFrom(bytes, i + 1)

isLikelyEUCKR(bytes) == eucKrPairsFrom(bytes, 1) > 0

hasEncodingIssues(str) ==
  \/ \E i \in 1..Len(str) : str[i] = 65533
  \/ \E i \in 1..Len(str) : str[i] >= 128 /\ str[i] <= 159
  \/ \E i \in 1..Len(str) : str[i] \in {65534, 65535}

\* isByteString with the threshold 0xffff in place of 0xff
isByteString_WideThreshold(str) == \A i \in 1..Len(str) : ~(str[i] > 65535)

isByteString(str) == \A i \in 1..Len(str) : ~(str[i] > 255)

tryDecodeEUCKR(bytes) == EucKrDecodeFrom(bytes, 1, 0, <<>>)

tryDecodeShiftJIS(bytes) == ShiftJisDecodeFrom(bytes, 1, 0, <<>>)

tryDecodeGBK(bytes) == Gb18030DecodeFrom(bytes, 1, 0, 0, 0, <<>>)

\* `decoded && !hasEncodingIssues(decoded)`: null and '' are falsy
acceptable(decoded) ==
  decoded.ok /\ decoded.str # <<>> /\ ~hasEncodingIssues(decoded.str)

\* new Uint8Array(filename.split('').map(c => c.charCodeAt(0)))
charCodeBytes(filename) == [i \in 1..Len(filename) |-> filename[i] % 256]

\* fixFilenameEncoding trying gbk first and euc-kr last
fixFilenameEncoding_GbkFirst(filename) ==
  IF ~isByteString(filename) THEN [fixed |-> filename, wasFixed |-> FALSE]
  ELSE IF ~hasEncodingIssues(filename)
    THEN LET bytes == charCodeBytes(filename)
             decoded == tryDecodeEUCKR(bytes)
         IN IF isLikelyEUCKR(bytes) /\ acceptable(decoded)
              THEN [fixed |-> decoded.str, wasFixed |-> TRUE]
              ELSE [fixed |-> filename, wasFixed |-> FALSE]
  ELSE LET bytes == TextEncoderEncode(filename)
           eucKrDecoded == tryDecodeEUCKR(bytes)
           shiftJisDecoded == tryDecodeShiftJIS(bytes)
           gbkDecoded == tryDecodeGBK(bytes)
       IN IF acceptable(gbkDecoded)
            THEN [fixed |-> gbkDecoded.str, wasFixed |-> TRUE]
          ELSE IF acceptable(shiftJisDecoded)
            THEN [fixed |-> shiftJisDecoded.str, wasFixed |-> TRUE]
          ELSE IF acceptable(eucKrDecoded)
            THEN [fixed |-> eucKrDecoded.str, wasFixed |-> TRUE]
          ELSE [fixed |-> filename, wasFixed |-> FALSE]

\* fixFilenameEncoding without the isLikelyEUCKR test on the clean branch
fixFilenameEncoding_NoPairCheck(filename) ==
  IF ~isByteString(filename) THEN [fixed |-> filename, wasFixed |-> FALSE]
  ELSE IF ~hasEncodingIssues(filename)
    THEN LET bytes == charCodeBytes(filename)
             decoded == tryDecodeEUCKR(bytes)
         IN IF acceptable(decoded)
              THEN [fixed |-> decoded.str, wasFixed |-> TRUE]
              ELSE [fixed |-> filename, wasFixed |-> FALSE]
  ELSE LET bytes == TextEncoderEncode(filename)
           eucKrDecoded == tryDecodeEUCKR(bytes)
           shiftJisDecoded == tryDecodeShiftJIS(bytes)
           gbkDecoded == tryDecodeGBK(bytes)
       IN IF acceptable(eucKrDecoded)
            THEN [fixed |-> eucKrDecoded.str, wasFixed |-> TRUE]
          ELSE IF acceptable(shiftJisDecoded)
            THEN [fixed |-> shiftJisDecoded.str, wasFixed |-> TRUE]
          ELSE IF acceptable(gbkDecoded)
            THEN [fixed |-> gbkDecoded.str, wasFixed |-> TRUE]
          ELSE [fixed |-> filename, wasFixed |-> FALSE]

fixFilenameEncoding(filename) ==
  IF ~isByteString(filename) THEN [fixed |-> filename, wasFixed |-> FALSE]
  ELSE IF ~hasEncodingIssues(filename)
    THEN LET bytes == charCodeBytes(filename)
             decoded == tryDecodeEUCKR(bytes)
         IN IF isLikelyEUCKR(bytes) /\ acceptable(decoded)
              THEN [fixed |-> decoded.str, wasFixed |-> TRUE]
              ELSE [fixed |-> filename, wasFixed |-> FALSE]
  ELSE LET bytes == TextEncoderEncode(filename)
           eucKrDecoded == tryDecodeEUCKR(bytes)
           shiftJisDecoded == tryDecodeShiftJIS(bytes)
           gbkDecoded == tryDecodeGBK(bytes)
       IN IF acceptable(eucKrDecoded)
            THEN [fixed |-> eucKrDecoded.str, wasFixed |-> TRUE]
          ELSE IF acceptable(shiftJisDecoded)
            THEN [fixed |-> shiftJisDecoded.str, wasFixed |-> TRUE]
          ELSE IF acceptable(gbkDecoded)
            THEN [fixed |-> gbkDecoded.str, wasFixed |-> TRUE]
          ELSE [fixed |-> filename, wasFixed |-> FALSE]

-----------------------------------------------------------------------------
(* Path classifier *)

isMacOSArtifact(path) ==
  startsWith(path, MACOSX_DIR) \/ includes(path, SLASH \o MACOSX_DIR)

isDSStore(path) ==
  endsWith(path, DS_STORE) \/ includes(path, SLASH \o DS_STORE)

isHiddenFile(path) ==
  LET parts == split(path, 47)
  IN \E k \in 1..Len(parts) : startsWith(parts[k], DOT) /\ parts[k] # DS_STORE

-----------------------------------------------------------------------------
(* Reports and options *)

DEFAULT_OPTIONS ==
  [removeMAcOSArtifacts |-> TRUE, removeDSStore |-> TRUE,
   removeHiddenFiles |-> FALSE, fixEncoding |-> TRUE]

\* ProcessingOptions: { ...DEFAULT_OPTIONS, ...options } always has all four
ProcessingOptions ==
  [removeMAcOSArtifacts : BOOLEAN, removeDSStore : BOOLEAN,
   removeHiddenFiles : BOOLEAN, fixEncoding : BOOLEAN]

\* a DiagnosticIssue; fixedPath is <<>> when absent, <<path>> when present
Issue(type, originalPath, fixedPath, description) ==
  [type |-> type, originalPath |-> originalPath, fixedPath |-> fixedPath,
   description |-> description]

Min(a, b) == IF a < b THEN a ELSE b

\* the locals of one run: the counters, the issue list, the target archive
NewRun ==
  [issues |-> <<>>, macosArtifacts |-> 0, dsStoreFiles |-> 0, encodingIssues |-> 0,
   hiddenFiles |-> 0, totalFiles |-> 0, processedFiles |-> 0, target |-> <<>>]

\* encodingConfidence without the Math.min(60, ...) cap
encodingConfidence_NoCap(run) ==
  (IF run.macosArtifacts > 0 \/ run.dsStoreFiles > 0 THEN 40 ELSE 0)
  + (IF run.encodingIssues > 0 THEN run.encodingIssues * 15 ELSE 0)

\* `let encodingConfidence = 0; if (...) += 40; if (...) += Math.min(60, n * 15)`
encodingConfidence(run) ==
  (IF run.macosArtifacts > 0 \/ run.dsStoreFiles > 0 THEN 40 ELSE 0)
  + (IF run.encodingIssues > 0 THEN Min(60, run.encodingIssues * 15) ELSE 0)

\* the DiagnosticReport analyzeZip and processZip return
DiagnosticReport(run) ==
  [totalFiles |-> run.totalFiles, issues |-> run.issues,
   macosArtifacts |-> run.macosArtifacts, dsStoreFiles |-> run.dsStoreFiles,
   encodingIssues |-> run.encodingIssues, hiddenFiles |-> run.hiddenFiles,
   encodingConfidence |-> Min(100, encodingConfidence(run))]

\* the DiagnosticReport createZipFromFiles returns
FolderReport(run) ==
  [totalFiles |-> run.totalFiles, issues |-> run.issues,
   macosArtifacts |-> 0, dsStoreFiles |-> run.dsStoreFiles,
   encodingIssues |-> 0, hiddenFiles |-> run.hiddenFiles,
   encodingConfidence |-> 0]

-----------------------------------------------------------------------------
(* The archive container (JSZip) *)

\* zipEntry.dir: a folder entry's name ends with '/'
isDir(path) == endsWith(path, SLASH)

\* a canonical array index ("0", "1", ..., "4294967294"): such property keys
\* are enumerated first, in ascending numeric order
MAX_ARRAY_INDEX == <<52, 50, 57, 52, 57, 54, 55, 50, 57, 52>>

RECURSIVE digitsLess(_, _, _)
digitsLess(a, b, i) ==
  IF i > Len(a) THEN FALSE
  ELSE IF a[i] # b[i] THEN a[i] < b[i]
  ELSE digitsLess(a, b, i + 1)

\* a < b for canonical numeric strings
numericLess(a, b) == Len(a) < Len(b) \/ (Len(a) = Len(b) /\ digitsLess(a, b, 1))

isArrayIndex(key) ==
  /\ Len(key) >= 1
  /\ \A i \in 1..Len(key) : key[i] >= 48 /\ key[i] <= 57
  /\ (Len(key) = 1 \/ key[1] # 48)
  /\ ~numericLess(MAX_ARRAY_INDEX, key)

\* Object.entries(contents.files) after loadAsync: one [path, content] per
\* distinct name, a later entry of the same name replacing the content of
\* the earlier one in place; array-index keys first, then insertion order.
\* The content of the entry at position i of the archive is the payload i.
ObjectEntries(names) ==
  LET keys == {names[i] : i \in 1..Len(names)}
      firstAt(p) == CHOOSE i \in 1..Len(names) :
                      names[i] = p /\ \A j \in 1..(i - 1) : names[j] # p
      lastAt(p) == CHOOSE i \in 1..Len(names) :
                     names[i] = p /\ \A j \in (i + 1)..Len(names) : names[j] # p
      indexKeys == {p \in keys : isArrayIndex(p)}
      rank(p) ==
        IF p \in indexKeys
          THEN 1 + Cardinality({q \in indexKeys : numericLess(q, p)})
          ELSE 1 + Cardinality(indexKeys)
                 + Cardinality({q \in keys \ indexKeys : firstAt(q) < firstAt(p)})
  IN [k \in 1..Cardinality(keys) |->
        LET p == CHOOSE q \in keys : rank(q) = k
        IN [path |-> p, content |-> lastAt(p)]]

\* targetZip.file(name, content): add the file, or replace the one of that name
zipFile(files, name, content) ==
  IF \E k \in 1..Len(files) : files[k].path = name
    THEN [k \in 1..Len(files) |->
            IF files[k].path = name THEN [path |-> name, content |-> content]
            ELSE files[k]]
    ELSE Append(files, [path |-> name, content |-> content])

-----------------------------------------------------------------------------
(* analyzeZip *)

\* analyzeEntry testing `fixed` (always truthy) in place of `wasFixed`
analyzeEntry_TestsFixed(run, path) ==
  IF isDir(path) THEN run
  ELSE LET r1 == [run EXCEPT !.totalFiles = @ + 1] IN
    IF isMacOSArtifact(path)
      THEN [r1 EXCEPT !.macosArtifacts = @ + 1,
                      !.issues = Append(@, Issue("macos_artifact", path, <<>>,
                                                 "macOS metadata file (__MACOSX)"))]
    ELSE IF isDSStore(path)
      THEN [r1 EXCEPT !.dsStoreFiles = @ + 1,
                      !.issues = Append(@, Issue("ds_store", path, <<>>,
                                                 "macOS folder settings file (.DS_Store)"))]
    ELSE LET r2 == IF isHiddenFile(path)
                     THEN [r1 EXCEPT !.hiddenFiles = @ + 1,
                                     !.issues = Append(@, Issue("hidden_file", path, <<>>,
                                                                "hidden file"))]
                     ELSE r1
             fix == fixFilenameEncoding(path)
         IN IF fix.fixed # <<>>
              THEN [r2 EXCEPT !.encodingIssues = @ + 1,
                              !.issues = Append(@, Issue("encoding", path, <<fix.fixed>>,
                                            "filename encoding problem detected"))]
              ELSE r2

\* analyzeEntry where a hidden-file match ends the iteration (`continue`)
analyzeEntry_HiddenShortCircuits(run, path) ==
  IF isDir(path) THEN run
  ELSE LET r1 == [run EXCEPT !.totalFiles = @ + 1] IN
    IF isMacOSArtifact(path)
      THEN [r1 EXCEPT !.macosArtifacts = @ + 1,
                      !.issues = Append(@, Issue("macos_artifact", path, <<>>,
                                                 "macOS metadata file (__MACOSX)"))]
    ELSE IF isDSStore(path)
      THEN [r1 EXCEPT !.dsStoreFiles = @ + 1,
                      !.issues = Append(@, Issue("ds_store", path, <<>>,
                                                 "macOS folder settings file (.DS_Store)"))]
    ELSE IF isHiddenFile(path)
      THEN [r1 EXCEPT !.hiddenFiles = @ + 1,
                      !.issues = Append(@, Issue("hidden_file", path, <<>>, "hidden file"))]
    ELSE LET fix == fixFilenameEncoding(path)
         IN IF fix.wasFixed
              THEN [r1 EXCEPT !.encodingIssues = @ + 1,
                              !.issues = Append(@, Issue("encoding", path, <<fix.fixed>>,
                                            "filename encoding problem detected"))]
              ELSE r1

\* one iteration of the loop of analyzeZip
analyzeEntry(run, path) ==
  IF isDir(path) THEN run
  ELSE LET r1 == [run EXCEPT !.totalFiles = @ + 1] IN
    IF isMacOSArtifact(path)
      THEN [r1 EXCEPT !.macosArtifacts = @ + 1,
                      !.issues = Append(@, Issue("macos_artifact", path, <<>>,
                                                 "macOS metadata file (__MACOSX)"))]
    ELSE IF isDSStore(path)
      THEN [r1 EXCEPT !.dsStoreFiles = @ + 1,
                      !.issues = Append(@, Issue("ds_store", path, <<>>,
                                                 "macOS folder settings file (.DS_Store)"))]
    ELSE LET r2 == IF isHiddenFile(path)
                     THEN [r1 EXCEPT !.hiddenFiles = @ + 1,
                                     !.issues = Append(@, Issue("hidden_file", path, <<>>,
                                                                "hidden file"))]
                     ELSE r1
             fix == fixFilenameEncoding(path)
         IN IF fix.wasFixed
              THEN [r2 EXCEPT !.encodingIssues = @ + 1,
                              !.issues = Append(@, Issue("encoding", path, <<fix.fixed>>,
                                            "filename encoding problem detected"))]
              ELSE r2

RECURSIVE analyzeLoop_Reversed(_, _, _)
\* the loop of analyzeZip visiting the entries last to first
analyzeLoop_Reversed(entries, i, run) ==
  IF i > Len(entries) THEN run
  ELSE analyzeEntry(analyzeLoop_Reversed(entries, i + 1, run), entries[i].path)

RECURSIVE analyzeLoop_StopsAtArtifact(_, _, _)
\* the loop of analyzeZip that only counts the entries after the first
\* metadata artifact, without examining them
analyzeLoop_StopsAtArtifact(entries, i, run) ==
  IF i > Len(entries) THEN run
  ELSE IF run.macosArtifacts > 0 /\ ~isDir(entries[i].path)
    THEN analyzeLoop_StopsAtArtifact(entries, i + 1, [run EXCEPT !.totalFiles = @ + 1])
  ELSE analyzeLoop_StopsAtArtifact(entries, i + 1, analyzeEntry(run, entries[i].path))

RECURSIVE analyzeLoop(_, _, _)
analyzeLoop(entries, i, run) ==
  IF i > Len(entries) THEN run
  ELSE analyzeLoop(entries, i + 1, analyzeEntry(run, entries[i].path))

\* the report analyzeZip resolves with, once loadAsync has resolved
analyzeZip(file) == DiagnosticReport(analyzeLoop(ObjectEntries(file), 1, NewRun))

-----------------------------------------------------------------------------
(* processZip *)

\* processEntry renaming every repairable entry, whatever fixEncoding says
processEntry_RenamesRegardless(run, entry, opts) ==
  LET path == entry.path IN
  IF isDir(path) THEN run
  ELSE
    LET r1 == [run EXCEPT !.totalFiles = @ + 1]
        r2 == IF isMacOSArtifact(path) THEN [r1 EXCEPT !.macosArtifacts = @ + 1] ELSE r1
    IN
    IF isMacOSArtifact(path) /\ opts.removeMAcOSArtifacts
      THEN [r2 EXCEPT !.issues = Append(@, Issue("macos_artifact", path, <<>>,
                                                 "deleted: macOS metadata file"))]
    ELSE
      LET r3 == IF isDSStore(path) THEN [r2 EXCEPT !.dsStoreFiles = @ + 1] ELSE r2 IN
      IF isDSStore(path) /\ opts.removeDSStore
        THEN [r3 EXCEPT !.issues = Append(@, Issue("ds_store", path, <<>>,
                                                   "deleted: .DS_Store file"))]
      ELSE
        LET r4 == IF isHiddenFile(path) THEN [r3 EXCEPT !.hiddenFiles = @ + 1] ELSE r3 IN
        IF isHiddenFile(path) /\ opts.removeHiddenFiles
          THEN [r4 EXCEPT !.issues = Append(@, Issue("hidden_file", path, <<>>,
                                                     "deleted: hidden file"))]
        ELSE
          LET fix == fixFilenameEncoding(path)
              renamed == fix.wasFixed
              finalPath == IF renamed THEN fix.fixed ELSE path
              r5 == IF renamed
                      THEN [r4 EXCEPT !.encodingIssues = @ + 1,
                                      !.issues = Append(@, Issue("encoding", path,
                                                    <<fix.fixed>>, "filename encoding fixed"))]
                      ELSE r4
          IN [r5 EXCEPT !.target = zipFile(@, finalPath, entry.content),
                        !.processedFiles = @ + 1]

\* processEntry recording a hidden_file issue for every hidden entry, kept or
\* not, as analyzeZip does
processEntry_ReportsKeptHidden(run, entry, opts) ==
  LET path == entry.path IN
  IF isDir(path) THEN run
  ELSE
    LET r1 == [run EXCEPT !.totalFiles = @ + 1]
        r2 == IF isMacOSArtifact(path) THEN [r1 EXCEPT !.macosArtifacts = @ + 1] ELSE r1
    IN
    IF isMacOSArtifact(path) /\ opts.removeMAcOSArtifacts
      THEN [r2 EXCEPT !.issues = Append(@, Issue("macos_artifact", path, <<>>,
                                                 "deleted: macOS metadata file"))]
    ELSE
      LET r3 == IF isDSStore(path) THEN [r2 EXCEPT !.dsStoreFiles = @ + 1] ELSE r2 IN
      IF isDSStore(path) /\ opts.removeDSStore
        THEN [r3 EXCEPT !.issues = Append(@, Issue("ds_store", path, <<>>,
                                                   "deleted: .DS_Store file"))]
      ELSE
        LET r4 == IF isHiddenFile(path)
                    THEN [r3 EXCEPT !.hiddenFiles = @ + 1,
                                    !.issues = Append(@, Issue("hidden_file", path, <<>>,
                                                               "deleted: hidden file"))]
                    ELSE r3
        IN
        IF isHiddenFile(path) /\ opts.removeHiddenFiles
          THEN r4
        ELSE
          LET fix == fixFilenameEncoding(path)
              renamed == opts.fixEncoding /\ fix.wasFixed
              finalPath == IF renamed THEN fix.fixed ELSE path
              r5 == IF renamed
                      THEN [r4 EXCEPT !.encodingIssues = @ + 1,
                                      !.issues = Append(@, Issue("encoding", path,
                                                    <<fix.fixed>>, "filename encoding fixed"))]
                      ELSE r4
          IN [r5 EXCEPT !.target = zipFile(@, finalPath, entry.content),
                        !.processedFiles = @ + 1]

\* one iteration of the loop of processZip
processEntry(run, entry, opts) ==
  LET path == entry.path IN
  IF isDir(path) THEN run
  ELSE
    LET r1 == [run EXCEPT !.totalFiles = @ + 1]
        r2 == IF isMacOSArtifact(path) THEN [r1 EXCEPT !.macosArtifacts = @ + 1] ELSE r1
    IN
    IF isMacOSArtifact(path) /\ opts.removeMAcOSArtifacts
      THEN [r2 EXCEPT !.issues = Append(@, Issue("macos_artifact", path, <<>>,
                                                 "deleted: macOS metadata file"))]
    ELSE
      LET r3 == IF isDSStore(path) THEN [r2 EXCEPT !.dsStoreFiles = @ + 1] ELSE r2 IN
      IF isDSStore(path) /\ opts.removeDSStore
        THEN [r3 EXCEPT !.issues = Append(@, Issue("ds_store", path, <<>>,
                                                   "deleted: .DS_Store file"))]
      ELSE
        LET r4 == IF isHiddenFile(path) THEN [r3 EXCEPT !.hiddenFiles = @ + 1] ELSE r3 IN
        IF isHiddenFile(path) /\ opts.removeHiddenFiles
          THEN [r4 EXCEPT !.issues = Append(@, Issue("hidden_file", path, <<>>,
                                                     "deleted: hidden file"))]
        ELSE
          LET fix == fixFilenameEncoding(path)
              renamed == opts.fixEncoding /\ fix.wasFixed
              finalPath == IF renamed THEN fix.fixed ELSE path
              r5 == IF renamed
                      THEN [r4 EXCEPT !.encodingIssues = @ + 1,
                                      !.issues = Append(@, Issue("encoding", path,
                                                    <<fix.fixed>>, "filename encoding fixed"))]
                      ELSE r4
          IN [r5 EXCEPT !.target = zipFile(@, finalPath, entry.content),
                        !.processedFiles = @ + 1]

RECURSIVE processLoop(_, _, _, _)
processLoop(entries, i, run, opts) ==
  IF i > Len(entries) THEN run
  ELSE processLoop(entries, i + 1, processEntry(run, entries[i], opts), opts)

\* what processZip resolves with when no await rejects: the generated
\* archive (its file entries, in the order added) and the report
processZip(file, opts) ==
  LET run == processLoop(ObjectEntries(file), 1, NewRun, opts)
  IN [blob |-> run.target, report |-> DiagnosticReport(run),
      processedFiles |-> run.processedFiles]

-----------------------------------------------------------------------------
(* createZipFromFiles *)

\* createEntry that also filters metadata artifacts, as processZip does
createEntry_RemovesArtifacts(run, relativePath, content, opts) ==
  LET r1 == [run EXCEPT !.totalFiles = @ + 1] IN
  IF isMacOSArtifact(relativePath) /\ opts.removeMAcOSArtifacts
    THEN [r1 EXCEPT !.issues = Append(@, Issue("macos_artifact", relativePath, <<>>,
                                               "excluded: macOS metadata file"))]
  ELSE
    LET r2 == IF isDSStore(relativePath) THEN [r1 EXCEPT !.dsStoreFiles = @ + 1] ELSE r1
    IN
    IF isDSStore(relativePath) /\ opts.removeDSStore
      THEN [r2 EXCEPT !.issues = Append(@, Issue("ds_store", relativePath, <<>>,
                                                 "excluded: .DS_Store file"))]
    ELSE
      LET r3 == IF isHiddenFile(relativePath) THEN [r2 EXCEPT !.hiddenFiles = @ + 1] ELSE r2
      IN
      IF isHiddenFile(relativePath) /\ opts.removeHiddenFiles
        THEN [r3 EXCEPT !.issues = Append(@, Issue("hidden_file", relativePath, <<>>,
                                                   "excluded: hidden file"))]
      ELSE [r3 EXCEPT !.target = zipFile(@, relativePath, content),
                      !.processedFiles = @ + 1]

\* one iteration of the loop of createZipFromFiles; the content of the
\* file at position i of the list is the payload i
createEntry(run, relativePath, content, opts) ==
  LET r1 == [run EXCEPT !.totalFiles = @ + 1]
      r2 == IF isDSStore(relativePath) THEN [r1 EXCEPT !.dsStoreFiles = @ + 1] ELSE r1
  IN
  IF isDSStore(relativePath) /\ opts.removeDSStore
    THEN [r2 EXCEPT !.issues = Append(@, Issue("ds_store", relativePath, <<>>,
                                               "excluded: .DS_Store file"))]
  ELSE
    LET r3 == IF isHiddenFile(relativePath) THEN [r2 EXCEPT !.hiddenFiles = @ + 1] ELSE r2 IN
    IF isHiddenFile(relativePath) /\ opts.removeHiddenFiles
      THEN [r3 EXCEPT !.issues = Append(@, Issue("hidden_file", relativePath, <<>>,
                                                 "excluded: hidden file"))]
    ELSE [r3 EXCEPT !.target = zipFile(@, relativePath, content),
                    !.processedFiles = @ + 1]

RECURSIVE createLoop(_, _, _, _)
createLoop(fileArray, i, run, opts) ==
  IF i > Len(fileArray) THEN run
  ELSE createLoop(fileArray, i + 1, createEntry(run, fileArray[i], i, opts), opts)

createZipFromFiles(files, opts) ==
  LET run == createLoop(files, 1, NewRun, opts)
  IN [blob |-> run.target, report |-> FolderReport(run),
      processedFiles |-> run.processedFiles]

-----------------------------------------------------------------------------
(* Inputs *)

\* "__MACOSX/.a": a metadata artifact that is also a hidden file
PATH_ARTIFACT_HIDDEN == MACOSX_DIR \o <<46, 97>>
\* ".a/.DS_Store": a settings file inside a hidden folder
PATH_DSSTORE_HIDDEN == <<46, 97, 47>> \o DS_STORE
\* "." U+0085: a hidden file with a damaged, repairable name
PATH_HIDDEN_DAMAGED == <<46, 133>>
\* "." U+D61A: the name PATH_HIDDEN_DAMAGED is repaired to
PATH_HIDDEN_KOREAN == <<46, 54810>>
\* "C": plain ASCII
PATH_PLAIN == <<67>>
\* "1": a name that is an array-index property key
PATH_INDEX == <<49>>
\* "d/": a folder entry
PATH_DIR == <<100, 47>>
\* U+00B0 U+00A1 U+00C6: clean Latin-1 that scans as a byte pair but is not
\* strictly decodable
PATH_UNREPAIRABLE == <<176, 161, 198>>

\* "a.DS_Store": pure ASCII, no segment starting with '.'
PATH_DSSTORE_SUFFIX == <<97>> \o DS_STORE
\* U+00A1 U+00C6 "C": clean Latin-1 that decodes as euc-kr to U+00B0 "C"
PATH_LATIN_PAIR == <<161, 198, 67>>

PathPool ==
  {PATH_ARTIFACT_HIDDEN, PATH_DSSTORE_HIDDEN, PATH_HIDDEN_DAMAGED, PATH_HIDDEN_KOREAN,
   PATH_PLAIN, PATH_INDEX, PATH_DIR, PATH_UNREPAIRABLE, PATH_DSSTORE_SUFFIX,
   PATH_LATIN_PAIR}

SmallArchives == UNION {[1..n -> PathPool] : n \in 0..MaxEntries}

\* archives with up to MaxDamaged distinct damaged names (U+0085 repeated),
\* with or without a ".DS_Store" and a "__MACOSX/a" entry in front
DamagedArchives ==
  {(IF ds THEN <<DS_STORE>> ELSE <<>>)
     \o (IF art THEN <<MACOSX_DIR \o <<97>>>> ELSE <<>>)
     \o [i \in 1..k |-> Rep(133, i)] :
       ds \in BOOLEAN, art \in BOOLEAN, k \in 0..MaxDamaged}

\* "__MACOSX/._doc.txt", ".DS_Store", "readme.txt"
SCENARIO_A ==
  <<MACOSX_DIR \o <<46, 95, 100, 111, 99, 46, 116, 120, 116>>, DS_STORE, <<114, 101, 97, 100, 109, 101, 46, 116, 120, 116>>>>

Archives == SmallArchives \cup DamagedArchives \cup {SCENARIO_A}

\* code units of the names drawn for the repair engine:
\* '.', 'C', U+0080, U+0085, U+00A1, U+00B0, U+00C6, U+FFFD
NameChars == {46, 67, 128, 133, 161, 176, 198, 65533}

Names == UNION {[1..n -> NameChars] : n \in 0..MaxNameLen}

\* U+00EF "C": clean Latin-1 whose bytes EF 43 are a pair that euc-kr
\* does not assign and gbk does
NAME_GBK_ONLY == <<239, 67>>

\* raw name bytes drawn for the repair engine
RawBytes == {67, 128, 133, 176, 194}

ByteSeqs == UNION {[1..n -> RawBytes] : n \in 1..MaxByteLen}

RECURSIVE Utf8DecodeFrom(_, _, _, _, _, _, _, _)
\* UTF-8 decoder, error mode replacement
Utf8DecodeFrom(bytes, i, needed, seen, cp, lower, upper, out) ==
  IF i > Len(bytes) THEN (IF needed # 0 THEN Append(out, 65533) ELSE out)
  ELSE LET byte == bytes[i] IN
    IF needed = 0
      THEN IF byte <= 127
             THEN Utf8DecodeFrom(bytes, i + 1, 0, 0, 0, 128, 191, Append(out, byte))
           ELSE IF byte >= 194 /\ byte <= 223
             THEN Utf8DecodeFrom(bytes, i + 1, 1, 0, byte - 192, 128, 191, out)
           ELSE IF byte >= 224 /\ byte <= 239
             THEN Utf8DecodeFrom(bytes, i + 1, 2, 0, byte - 224,
                                 IF byte = 224 THEN 160 ELSE 128,
                                 IF byte = 237 THEN 159 ELSE 191, out)
           ELSE IF byte >= 240 /\ byte <= 244
             THEN Utf8DecodeFrom(bytes, i + 1, 3, 0, byte - 240,
                                 IF byte = 240 THEN 144 ELSE 128,
                                 IF byte = 244 THEN 143 ELSE 191, out)
           ELSE Utf8DecodeFrom(bytes, i + 1, 0, 0, 0, 128, 191, Append(out, 65533))
    ELSE IF byte < lower \/ byte > upper
      THEN Utf8DecodeFrom(bytes, i, 0, 0, 0, 128, 191, Append(out, 65533))
    ELSE IF seen + 1 = needed
      THEN Utf8DecodeFrom(bytes, i + 1, 0, 0, 0, 128, 191,
                          out \o CodeUnits(cp * 64 + (byte - 128)))
    ELSE Utf8DecodeFrom(bytes, i + 1, needed, seen + 1, cp * 64 + (byte - 128),
                        128, 191, out)

\* the pieces the paths drawn for the classifier are made of:
\* "a", "/", ".", ".DS_Store", "__MACOSX"
PathTokens == {<<97>>, SLASH, DOT, DS_STORE, <<95, 95, 77, 65, 67, 79, 83, 88>>}

RECURSIVE Concat(_, _)
Concat(tokens, i) == IF i > Len(tokens) THEN <<>> ELSE tokens[i] \o Concat(tokens, i + 1)

Paths == {Concat(t, 1) : t \in UNION {[1..n -> PathTokens] : n \in 0..MaxTokens}}

\* raw name bytes read naively as UTF-8 (the name string the container
\* library hands out for an entry without a declared encoding)
reinterpretAsString(bytes) == Utf8DecodeFrom(bytes, 1, 0, 0, 0, 128, 191, <<>>)

-----------------------------------------------------------------------------
(* The state machine *)

NoCall == [status |-> "none"]

\* awaits that can reject inside processZip / createZipFromFiles
Failures == {"none", "load", "read"}

IdleArchive == archive = <<>> /\ aRes = NoCall /\ pRes = NoCall
IdleRepair == rBytes = <<>> /\ rIn = <<>> /\ rOut = NoCall /\ rAgain = NoCall
IdleClassify == cPath = <<>> /\ cOut = NoCall
IdleDetect == dIn = NoCall /\ dOut = NoCall

\* a useState cell holding null
NULL == [null |-> TRUE]

\* the page after its first render: the initial values of its useState cells
PageInit ==
  [mode |-> "zip", status |-> "idle", file |-> NULL, files |-> NULL, report |-> NULL,
   processedBlob |-> NULL, error |-> NULL,
   options |-> [removeMAcOSArtifacts |-> TRUE, removeDSStore |-> TRUE,
                removeHiddenFiles |-> FALSE, fixEncoding |-> TRUE]]

IdlePage ==
  /\ page = PageInit
  /\ pending = <<>>
  /\ nextId = 0
  /\ analyzedFiles = {}
  /\ saved = NULL

\* an async function that resolves with a partial result when a read rejects
settled_SkipsUnreadable(op, opts, cause, at, res) ==
  IF cause # "load"
    THEN [status |-> "resolved", op |-> op, options |-> opts, cause |-> cause, at |-> at,
          blob |-> res.blob, report |-> res.report]
    ELSE [status |-> "rejected", op |-> op, options |-> opts, cause |-> cause, at |-> at]

\* the promise of processZip / createZipFromFiles once settled: no await is
\* inside a try, so the first rejected await rejects the promise and the
\* return statement is not reached; `at` is the number of the read that
\* rejected (0 when none did)
settled(op, opts, cause, at, res) ==
  IF cause = "none"
    THEN [status |-> "resolved", op |-> op, options |-> opts, cause |-> cause, at |-> at,
          blob |-> res.blob, report |-> res.report]
    ELSE [status |-> "rejected", op |-> op, options |-> opts, cause |-> cause, at |-> at]

Init ==
  /\ archive \in Archives
  /\ aRes = NoCall
  /\ pRes = NoCall
  /\ IdleRepair
  /\ IdleClassify
  /\ IdleDetect
  /\ IdlePage

\* analyzeZip(file): rejects when loadAsync rejects
AnalyzeZip ==
  /\ aRes.status = "none"
  /\ \E loaded \in BOOLEAN :
       aRes' = IF loaded
                 THEN [status |-> "resolved", report |-> analyzeZip(archive)]
                 ELSE [status |-> "rejected"]
  /\ UNCHANGED <<archive, pRes, rBytes, rIn, rOut, rAgain, cPath, cOut, detectVars, pageVars>>

\* processZip(file, options): rejects when loadAsync or the read of a kept
\* entry rejects
ProcessZip ==
  /\ pRes.status = "none"
  /\ \E opts \in ProcessingOptions :
       LET res == processZip(archive, opts) IN
       \E failure \in Failures, at \in 0..res.processedFiles :
         /\ failure = "read" <=> at > 0
         /\ pRes' = settled("processZip", opts, failure, at, res)
  /\ UNCHANGED <<archive, aRes, rBytes, rIn, rOut, rAgain, cPath, cOut, detectVars, pageVars>>

\* createZipFromFiles(files, options) on a list of files with these relative
\* paths: rejects when the read of a kept file rejects
CreateZipFromFiles ==
  /\ pRes.status = "none"
  /\ \A i \in 1..Len(archive) : ~isDir(archive[i])
  /\ \E opts \in ProcessingOptions :
       LET res == createZipFromFiles(archive, opts) IN
       \E failure \in Failures \ {"load"}, at \in 0..res.processedFiles :
         /\ failure = "read" <=> at > 0
         /\ pRes' = settled("createZipFromFiles", opts, failure, at, res)
  /\ UNCHANGED <<archive, aRes, rBytes, rIn, rOut, rAgain, cPath, cOut, detectVars, pageVars>>

Next == AnalyzeZip \/ ProcessZip \/ CreateZipFromFiles

Spec == Init /\ [][Next]_vars

\* the repair engine alone: a name string, or raw name bytes and the string
\* they are read as
InitRepair ==
  /\ IdleArchive
  /\ IdleClassify
  /\ IdleDetect
  /\ IdlePage
  /\ \/ rBytes = <<>> /\ rIn \in Names \cup {NAME_GBK_ONLY}
     \/ rBytes \in ByteSeqs /\ rIn = reinterpretAsString(rBytes)
  /\ rOut = NoCall
  /\ rAgain = NoCall

Repair ==
  /\ rOut.status = "none"
  /\ rOut' = [status |-> "returned", result |-> fixFilenameEncoding(rIn)]
  /\ UNCHANGED <<archive, aRes, pRes, rBytes, rIn, rAgain, cPath, cOut, detectVars, pageVars>>

RepairAgain ==
  /\ rOut.status = "returned"
  /\ rAgain.status = "none"
  /\ rAgain' = [status |-> "returned", result |-> fixFilenameEncoding(rOut.result.fixed)]
  /\ UNCHANGED <<archive, aRes, pRes, rBytes, rIn, rOut, cPath, cOut, detectVars, pageVars>>

NextRepair == Repair \/ RepairAgain

SpecRepair == InitRepair /\ [][NextRepair]_vars

\* the path classifier alone
InitClassify ==
  /\ IdleArchive
  /\ IdleRepair
  /\ IdleDetect
  /\ IdlePage
  /\ cPath \in Paths
  /\ cOut = NoCall

Classify ==
  /\ cOut.status = "none"
  /\ cOut' = [status |-> "returned", isMacOSArtifact |-> isMacOSArtifact(cPath),
              isDSStore |-> isDSStore(cPath), isHiddenFile |-> isHiddenFile(cPath)]
  /\ UNCHANGED <<archive, aRes, pRes, rBytes, rIn, rOut, rAgain, cPath, detectVars, pageVars>>

NextClassify == Classify

SpecClassify == InitClassify /\ [][NextClassify]_vars

\* the detectors alone: a string for hasEncodingIssues, or bytes for
\* isLikelyEUCKR
DetectChars == NameChars \cup {127, 159, 160, 65279, 65534, 65535}

DetectStrings == UNION {[1..n -> DetectChars] : n \in 0..MaxNameLen}

\* 0x40, 0x41, 0x80, 0x81, 0xFE, 0xFF: the edges of the lead and trail ranges
ScanBytes == {64, 65, 128, 129, 254, 255}

ScanSeqs == UNION {[1..n -> ScanBytes] : n \in 0..MaxByteLen}

InitDetect ==
  /\ IdleArchive
  /\ IdleRepair
  /\ IdleClassify
  /\ IdlePage
  /\ \/ \E s \in DetectStrings : dIn = [kind |-> "string", value |-> s]
     \/ \E b \in ScanSeqs : dIn = [kind |-> "bytes", value |-> b]
  /\ dOut = NoCall

HasEncodingIssues ==
  /\ dOut.status = "none"
  /\ dIn.kind = "string"
  /\ dOut' = [status |-> "returned", result |-> hasEncodingIssues(dIn.value)]
  /\ UNCHANGED <<archive, aRes, pRes, rBytes, rIn, rOut, rAgain, cPath, cOut, dIn, pageVars>>

IsLikelyEUCKR ==
  /\ dOut.status = "none"
  /\ dIn.kind = "bytes"
  /\ dOut' = [status |-> "returned", result |-> isLikelyEUCKR(dIn.value)]
  /\ UNCHANGED <<archive, aRes, pRes, rBytes, rIn, rOut, rAgain, cPath, cOut, dIn, pageVars>>

NextDetect == HasEncodingIssues \/ IsLikelyEUCKR

SpecDetect == InitDetect /\ [][NextDetect]_vars

-----------------------------------------------------------------------------
(* The page: its state cells, its event handlers and the promises it awaits *)

\* the zip archives a user can hand to the page
ZipFiles == {SCENARIO_A, <<PATH_HIDDEN_DAMAGED, PATH_PLAIN>>}

\* the folders a user can hand to the page: the relative paths of the files
FolderLists == {<<<<97, 47>> \o DS_STORE, <<97, 47>> \o PATH_PLAIN>>}

\* what a user can drop: a file whose name ends with ".zip", or another file
DropItems ==
  {[endsWithZip |-> TRUE, archive |-> zip] : zip \in ZipFiles}
    \cup {[endsWithZip |-> FALSE, archive |-> <<>>]}

\* file.name of a file with this relative path
fileName(path) == split(path, 47)[Len(split(path, 47))]

\* `(file || files) && report`: the panel with the report, the options and
\* the action button is rendered
PanelVisible ==
  (page.file # NULL \/ page.files # NULL) /\ page.report # NULL

\* `!file && !files`: the upload area is rendered
UploadAreaVisible == page.file = NULL /\ page.files = NULL

RemoveAt(seq, i) == SubSeq(seq, 1, i - 1) \o SubSeq(seq, i + 1, Len(seq))

\* the state cells after handleReset
handleReset(cells) ==
  [cells EXCEPT !.file = NULL, !.files = NULL, !.report = NULL,
                !.processedBlob = NULL, !.error = NULL, !.status = "idle"]

\* the state cells after the synchronous part of handleZipFile
handleZipFile(cells, zipFileObject) ==
  [cells EXCEPT !.file = zipFileObject, !.files = NULL, !.error = NULL,
                !.status = "analyzing", !.processedBlob = NULL]

\* the report handleFolderSelect computes for a file list
folderPreview(fileList) ==
  [totalFiles |-> Len(fileList), issues |-> <<>>, macosArtifacts |-> 0,
   dsStoreFiles |->
     Cardinality({i \in 1..Len(fileList) :
                    fileName(fileList[i]) = DS_STORE \/ includes(fileList[i], DS_STORE)}),
   encodingIssues |-> 0,
   hiddenFiles |->
     Cardinality({i \in 1..Len(fileList) :
                    \E k \in 1..Len(split(fileList[i], 47)) :
                      /\ startsWith(split(fileList[i], 47)[k], DOT)
                      /\ split(fileList[i], 47)[k] # DS_STORE}),
   encodingConfidence |-> 0]

\* the state cells after handleFolderSelect
handleFolderSelect(cells, fileListObject) ==
  [cells EXCEPT !.files = fileListObject, !.file = NULL, !.error = NULL,
                !.report = folderPreview(fileListObject.list), !.status = "idle"]

otherVars == <<archive, aRes, pRes, rBytes, rIn, rOut, rAgain, cPath, cOut, detectVars>>

InitPage ==
  /\ IdleArchive
  /\ IdleRepair
  /\ IdleClassify
  /\ IdleDetect
  /\ IdlePage

\* a click on one of the two mode buttons
SetMode ==
  /\ \E m \in {"zip", "folder"} : page' = handleReset([page EXCEPT !.mode = m])
  /\ UNCHANGED <<otherVars, pending, nextId, analyzedFiles, saved>>

\* a click on the reset button of the panel
HandleReset ==
  /\ PanelVisible
  /\ page' = handleReset(page)
  /\ UNCHANGED <<otherVars, pending, nextId, analyzedFiles, saved>>

\* handleZipFile(zipFile) up to its await: a new File object, and the
\* promise of analyzeZip(zipFile)
StartZipFile(zip) ==
  /\ nextId < MaxFiles
  /\ Len(pending) < MaxPending
  /\ LET zipFileObject == [id |-> nextId + 1, archive |-> zip] IN
     /\ page' = handleZipFile(page, zipFileObject)
     /\ pending' = Append(pending, [op |-> "analyzeZip", file |-> zipFileObject])
  /\ nextId' = nextId + 1
  /\ UNCHANGED <<otherVars, analyzedFiles, saved>>

\* a drop on the upload area, in either mode
HandleDrop ==
  /\ UploadAreaVisible
  /\ \E item \in DropItems :
       IF ~item.endsWithZip
         THEN /\ page' = [page EXCEPT !.error = [message |-> "zipOnlyError"]]
              /\ UNCHANGED <<otherVars, pending, nextId, analyzedFiles, saved>>
         ELSE StartZipFile(item.archive)

\* a file chosen in the dialog of the zip input, opened by a click on the
\* upload area in zip mode
ZipInputChange ==
  /\ UploadAreaVisible
  /\ page.mode = "zip"
  /\ \E zip \in ZipFiles : StartZipFile(zip)

\* a folder chosen in the dialog of the folder input, opened by a click on
\* the upload area in folder mode
FolderInputChange ==
  /\ UploadAreaVisible
  /\ page.mode = "folder"
  /\ nextId < MaxFiles
  /\ \E list \in FolderLists :
       page' = handleFolderSelect(page, [id |-> nextId + 1, list |-> list])
  /\ nextId' = nextId + 1
  /\ UNCHANGED <<otherVars, pending, analyzedFiles, saved>>

\* a change of one of the option checkboxes of the panel
SetOptions ==
  /\ PanelVisible
  /\ \E name \in {"removeMAcOSArtifacts", "removeDSStore", "removeHiddenFiles",
                  "fixEncoding"} :
       /\ name = "fixEncoding" => page.mode = "zip"
       /\ page' = [page EXCEPT !.options[name] = ~@]
       /\ Cardinality({other \in DOMAIN PageInit.options :
                         page'.options[other] # PageInit.options[other]}) <= MaxToggles
  /\ UNCHANGED <<otherVars, pending, nextId, analyzedFiles, saved>>

\* a click on the process button: handleProcess up to its await, or to its
\* end when neither branch is taken
HandleProcess ==
  /\ PanelVisible
  /\ page.status \notin {"done", "processing", "analyzing"}
  /\ IF page.mode = "zip" /\ page.file # NULL
       THEN /\ Len(pending) < MaxPending
            /\ page' = [page EXCEPT !.status = "processing", !.error = NULL]
            /\ pending' = Append(pending, [op |-> "processZip", file |-> page.file,
                                           options |-> page.options])
     ELSE IF page.mode = "folder" /\ page.files # NULL
       THEN /\ Len(pending) < MaxPending
            /\ page' = [page EXCEPT !.status = "processing", !.error = NULL]
            /\ pending' = Append(pending, [op |-> "createZipFromFiles",
                                           files |-> page.files,
                                           options |-> page.options])
     ELSE /\ page' = [page EXCEPT !.status = "done", !.error = NULL]
          /\ UNCHANGED pending
  /\ UNCHANGED <<otherVars, nextId, analyzedFiles, saved>>

\* a click on the download button
HandleDownload ==
  /\ PanelVisible
  /\ page.status = "done"
  /\ saved' = IF page.processedBlob = NULL THEN saved ELSE page.processedBlob
  /\ UNCHANGED <<otherVars, page, pending, nextId, analyzedFiles>>

\* the promise of analyzeZip settles: the rest of handleZipFile
SettleAnalyzeZip ==
  \E i \in 1..Len(pending), resolved \in BOOLEAN :
    /\ pending[i].op = "analyzeZip"
    /\ pending' = RemoveAt(pending, i)
    /\ IF resolved
         THEN /\ page' = [page EXCEPT !.report = analyzeZip(pending[i].file.archive),
                                      !.status = "idle"]
              /\ analyzedFiles' = analyzedFiles \cup {pending[i].file.id}
         ELSE /\ page' = [page EXCEPT !.error = [message |-> "analyzeError"], !.status = "error"]
              /\ UNCHANGED analyzedFiles
    /\ UNCHANGED <<otherVars, nextId, saved>>

\* the promise of processZip or createZipFromFiles settles: the rest of
\* handleProcess
SettleProcess ==
  \E i \in 1..Len(pending), resolved \in BOOLEAN :
    /\ pending[i].op \in {"processZip", "createZipFromFiles"}
    /\ pending' = RemoveAt(pending, i)
    /\ LET result == IF pending[i].op = "processZip"
                       THEN processZip(pending[i].file.archive, pending[i].options)
                       ELSE createZipFromFiles(pending[i].files.list, pending[i].options)
       IN page' = IF resolved
                    THEN [page EXCEPT !.processedBlob = [content |-> result.blob],
                                      !.report = result.report, !.status = "done"]
                    ELSE [page EXCEPT !.error = [message |-> "processError"], !.status = "error"]
    /\ UNCHANGED <<otherVars, nextId, analyzedFiles, saved>>

NextPage ==
  \/ SetMode
  \/ HandleReset
  \/ HandleDrop
  \/ ZipInputChange
  \/ FolderInputChange
  \/ SetOptions
  \/ HandleProcess
  \/ HandleDownload
  \/ SettleAnalyzeZip
  \/ SettleProcess

SpecPage == InitPage /\ [][NextPage]_vars


-----------------------------------------------------------------------------
(* Vocabulary of the properties *)

analyzed == aRes.status = "resolved"
processed == pRes.status = "resolved" /\ pRes.op = "processZip"
created == pRes.status = "resolved" /\ pRes.op = "createZipFromFiles"

\* the reports returned in this state
ZipReports ==
  (IF analyzed THEN {aRes.report} ELSE {}) \cup (IF processed THEN {pRes.report} ELSE {})
AllReports == ZipReports \cup (IF created THEN {pRes.report} ELSE {})

\* the number of issues of a type in a report
IssueCount(report, type) ==
  Cardinality({k \in 1..Len(report.issues) : report.issues[k].type = type})

\* the non-directory entries of the source archive, by position in
\* Object.entries order
SourceEntries == ObjectEntries(archive)
FileEntries == {k \in 1..Len(SourceEntries) : ~isDir(SourceEntries[k].path)}

\* an entry processZip drops under the options
Dropped(path, opts) ==
  \/ isMacOSArtifact(path) /\ opts.removeMAcOSArtifacts
  \/ isDSStore(path) /\ opts.removeDSStore
  \/ isHiddenFile(path) /\ opts.removeHiddenFiles

KeptEntries(opts) == {k \in FileEntries : ~Dropped(SourceEntries[k].path, opts)}

\* the path a kept entry is to be written under
FinalPath(path, opts) ==
  IF opts.fixEncoding /\ fixFilenameEncoding(path).wasFixed
    THEN fixFilenameEncoding(path).fixed
    ELSE path

\* a strict decode that succeeded and does not look damaged
Clean(decoded) == decoded.ok /\ ~hasEncodingIssues(decoded.str)

-----------------------------------------------------------------------------
(* C1 *)

CountersMatchIssues(report) ==
  /\ report.macosArtifacts = IssueCount(report, "macos_artifact")
  /\ report.dsStoreFiles = IssueCount(report, "ds_store")
  /\ report.hiddenFiles = IssueCount(report, "hidden_file")
  /\ report.encodingIssues = IssueCount(report, "encoding")

\* C1: in every report returned by analyzeZip, processZip (any options) and
\* createZipFromFiles, each of the four counters equals the number of issues
\* of its type in the report's issue list.
C1_CountersMatchIssues == \A report \in AllReports : CountersMatchIssues(report)

(* C2 *)

\* C2: in every report of analyzeZip and processZip, an entry that is both a
\* metadata artifact and a hidden file is counted in macosArtifacts only:
\* hiddenFiles counts no entry that is a metadata artifact, and macosArtifacts
\* counts every artifact.
C2_ArtifactNotCountedHidden ==
  \A report \in ZipReports :
    /\ report.macosArtifacts
         = Cardinality({k \in FileEntries : isMacOSArtifact(SourceEntries[k].path)})
    /\ report.hiddenFiles
         <= Cardinality({k \in FileEntries :
                           /\ isHiddenFile(SourceEntries[k].path)
                           /\ ~isMacOSArtifact(SourceEntries[k].path)})

(* C3 *)

\* C3: after processZip completes, every kept source entry has an entry in
\* the output at its final path with the same payload, and the output holds
\* exactly one entry per kept source entry.
C3_KeptEntriesCopied ==
  processed =>
    /\ \A k \in KeptEntries(pRes.options) :
         \E j \in 1..Len(pRes.blob) :
           /\ pRes.blob[j].path = FinalPath(SourceEntries[k].path, pRes.options)
           /\ pRes.blob[j].content = SourceEntries[k].content
    /\ Len(pRes.blob) = Cardinality(KeptEntries(pRes.options))

(* C4 *)

\* a string with a code unit above 0xFF
NotByteRepresentable(s) == \E i \in 1..Len(s) : s[i] > 255

\* C4: for every string S that is not byte-representable,
\* fixFilenameEncoding(S) is {fixed: S, wasFixed: false}, damaged-looking or not.
C4_NonByteStringUnaltered ==
  (rOut.status = "returned" /\ NotByteRepresentable(rIn))
    => rOut.result = [fixed |-> rIn, wasFixed |-> FALSE]

\* a damaged-looking string with a code unit above 0xFF and one below went
\* through the repair
C4_Witness ==
  /\ rOut.status = "returned"
  /\ NotByteRepresentable(rIn)
  /\ hasEncodingIssues(rIn)
  /\ \E i \in 1..Len(rIn) : rIn[i] \in 128..255

(* C5 *)

\* the strict decodes of raw bytes under the three candidates, in order
Candidates(bytes) ==
  <<tryDecodeEUCKR(bytes), tryDecodeShiftJIS(bytes), tryDecodeGBK(bytes)>>

CleanCandidates(bytes) == {c \in 1..3 : Clean(Candidates(bytes)[c])}

\* C5: when the raw name bytes decode strictly and cleanly under exactly one
\* candidate encoding and the string they are read as looks damaged, the
\* repair of that string reports wasFixed with that candidate's decode.
C5_UniqueCandidateRepaired ==
  (/\ rOut.status = "returned"
   /\ rBytes # <<>>
   /\ Cardinality(CleanCandidates(rBytes)) = 1
   /\ hasEncodingIssues(rIn))
    => \A c \in CleanCandidates(rBytes) :
         rOut.result = [fixed |-> Candidates(rBytes)[c].str, wasFixed |-> TRUE]

(* C6 *)

\* C6: repair is idempotent: repairing the repaired name changes nothing and
\* reports wasFixed = false.
C6_RepairIdempotent ==
  rAgain.status = "returned"
    => rAgain.result = [fixed |-> rOut.result.fixed, wasFixed |-> FALSE]

(* C7 *)

\* C7: for a byte-representable name that looks damaged, the result is the
\* decode of the first of euc-kr, shift-jis, gbk (on the UTF-8 bytes of the
\* name) that decodes strictly and does not look damaged; a later candidate
\* is returned only when every earlier one was rejected, and the name is
\* returned unfixed only when all three were.
C7_FirstCleanCandidate ==
  (/\ rOut.status = "returned"
   /\ ~NotByteRepresentable(rIn)
   /\ hasEncodingIssues(rIn))
    => LET cands == Candidates(TextEncoderEncode(rIn))
           clean == {c \in 1..3 : Clean(cands[c])}
       IN IF clean = {}
            THEN rOut.result = [fixed |-> rIn, wasFixed |-> FALSE]
            ELSE \E c \in clean :
                   /\ \A b \in clean : c <= b
                   /\ rOut.result = [fixed |-> cands[c].str, wasFixed |-> TRUE]

\* the third candidate (gbk) was returned after the first two were rejected,
\* although the first one is clean for another part of the same alphabet
C7_Witness ==
  /\ rOut.status = "returned"
  /\ ~NotByteRepresentable(rIn)
  /\ hasEncodingIssues(rIn)
  /\ ~Clean(tryDecodeEUCKR(TextEncoderEncode(rIn)))
  /\ ~Clean(tryDecodeShiftJIS(TextEncoderEncode(rIn)))
  /\ rOut.result = [fixed |-> tryDecodeGBK(TextEncoderEncode(rIn)).str, wasFixed |-> TRUE]
  /\ Len(rIn) > 1

(* C8 *)

\* C8: a failed repair is a no-op: whenever fixFilenameEncoding reports
\* wasFixed = false its fixed value is the input path; analyzeZip and
\* processZip record no encoding issue for such an entry, and processZip
\* writes it under its original path.
C8_RepairFailureIsNoOp ==
  \A k \in FileEntries :
    LET path == SourceEntries[k].path
        fix == fixFilenameEncoding(path)
        noIssue(report) ==
          \A n \in 1..Len(report.issues) :
            ~(report.issues[n].type = "encoding" /\ report.issues[n].originalPath = path)
    IN ~fix.wasFixed =>
         /\ fix.fixed = path
         /\ analyzed => noIssue(aRes.report)
         /\ processed =>
              /\ noIssue(pRes.report)
              /\ k \in KeptEntries(pRes.options)
                   => \E j \in 1..Len(pRes.blob) : pRes.blob[j].path = path

\* processZip with fixEncoding resolved on an archive holding a kept entry
\* whose name scans as a byte pair but cannot be decoded
C8_Witness ==
  /\ analyzed
  /\ processed
  /\ pRes.options.fixEncoding
  /\ \E k \in KeptEntries(pRes.options) :
       /\ SourceEntries[k].path = PATH_UNREPAIRABLE
       /\ isLikelyEUCKR(charCodeBytes(SourceEntries[k].path))
       /\ ~fixFilenameEncoding(SourceEntries[k].path).wasFixed

(* C9 *)

\* the confidence score as the specification states it
ConfidenceOf(macosArtifacts, dsStoreFiles, encodingIssues) ==
  Min(100, (IF macosArtifacts > 0 \/ dsStoreFiles > 0 THEN 40 ELSE 0)
             + Min(60, 15 * encodingIssues))

\* C9: in every report of analyzeZip and processZip, encodingConfidence is
\* min(100, (40 if macosArtifacts > 0 or dsStoreFiles > 0) + min(60, 15 *
\* encodingIssues)); it lies in 0..100, is no less than the score for fewer
\* encoding issues, and no less than the score without the artifact signal.
C9_ConfidenceFormula ==
  \A report \in ZipReports :
    /\ report.encodingConfidence
         = ConfidenceOf(report.macosArtifacts, report.dsStoreFiles, report.encodingIssues)
    /\ report.encodingConfidence \in 0..100
    /\ \A fewer \in 0..report.encodingIssues :
         ConfidenceOf(report.macosArtifacts, report.dsStoreFiles, fewer)
           <= report.encodingConfidence
    /\ ConfidenceOf(0, 0, report.encodingIssues) <= report.encodingConfidence

\* both clamps are active: five encoding issues (15 * 5 > 60) without the
\* artifact signal in analyzeZip, and with it in processZip
C9_Witness ==
  /\ analyzed
  /\ processed
  /\ aRes.report.encodingIssues >= 5
  /\ pRes.report.encodingIssues >= 5
  /\ pRes.report.dsStoreFiles > 0
  /\ pRes.report.encodingConfidence = 100

(* C10 *)

\* C10: encodingConfidence is a function of the four counters: two reports
\* with equal counters have equal encodingConfidence, whichever operations
\* produced them.
C10_ConfidenceFunctionOfCounters ==
  \A r1, r2 \in AllReports :
    (/\ r1.macosArtifacts = r2.macosArtifacts
     /\ r1.dsStoreFiles = r2.dsStoreFiles
     /\ r1.encodingIssues = r2.encodingIssues
     /\ r1.hiddenFiles = r2.hiddenFiles)
      => r1.encodingConfidence = r2.encodingConfidence

(* C11 *)

\* the types of the issues a report records for a path, in list order
IssueTypesFor(report, path) ==
  LET forPath(issue) == issue.originalPath = path
      sel == SelectSeq(report.issues, forPath)
  IN [n \in 1..Len(sel) |-> sel[n].type]

\* the issues analyzeZip is to record for an entry
AnalyzeIssueTypes(path) ==
  IF isMacOSArtifact(path) THEN <<"macos_artifact">>
  ELSE IF isDSStore(path) THEN <<"ds_store">>
  ELSE (IF isHiddenFile(path) THEN <<"hidden_file">> ELSE <<>>)
       \o (IF fixFilenameEncoding(path).wasFixed THEN <<"encoding">> ELSE <<>>)

\* C11: in analyzeZip every non-directory entry that is a metadata artifact
\* yields exactly one macos_artifact issue and nothing else; otherwise a
\* settings file yields exactly one ds_store issue and nothing else;
\* otherwise a hidden-file match yields a hidden_file issue and the encoding
\* check still runs, so a hidden entry with a repairable name yields both.
C11_AnalyzeClassification ==
  analyzed =>
    \A k \in FileEntries :
      IssueTypesFor(aRes.report, SourceEntries[k].path)
        = AnalyzeIssueTypes(SourceEntries[k].path)

\* analyzeZip resolved on an archive with a hidden entry of repairable name
\* (two issues) and an artifact that is also hidden (one issue)
C11_Witness ==
  /\ analyzed
  /\ IssueTypesFor(aRes.report, PATH_HIDDEN_DAMAGED) = <<"hidden_file", "encoding">>
  /\ IssueTypesFor(aRes.report, PATH_ARTIFACT_HIDDEN) = <<"macos_artifact">>
  /\ isHiddenFile(PATH_ARTIFACT_HIDDEN)

(* C12 *)

\* the type of the issue recorded for a dropped entry: the first check, in
\* the order artifact, settings file, hidden file, that drops it
DropType(path, opts) ==
  IF isMacOSArtifact(path) /\ opts.removeMAcOSArtifacts THEN "macos_artifact"
  ELSE IF isDSStore(path) /\ opts.removeDSStore THEN "ds_store"
  ELSE "hidden_file"

\* the run of processZip before it visits the entry at position k
RunBefore(k, opts) == processLoop(SubSeq(SourceEntries, 1, k - 1), 1, NewRun, opts)

\* C12: in processZip, for every combination of options, the pass drops a
\* non-directory entry (writes nothing for it, and records the issue of the
\* first check that applies) exactly when it is an artifact and
\* removeMAcOSArtifacts, or a settings file and removeDSStore, or a hidden
\* file and removeHiddenFiles; an entry that reaches the renaming step is
\* written under its repaired name exactly when fixEncoding is true and the
\* repair reports wasFixed, and under its own name otherwise.
C12_DropAndRenameDecisions ==
  processed =>
    \A k \in FileEntries :
      LET entry == SourceEntries[k]
          opts == pRes.options
          before == RunBefore(k, opts)
          after == processEntry(before, entry, opts)
          fix == fixFilenameEncoding(entry.path)
          written(name) ==
            \E j \in 1..Len(after.target) :
              after.target[j] = [path |-> name, content |-> entry.content]
      IN IF Dropped(entry.path, opts)
           THEN /\ after.target = before.target
                /\ \A j \in 1..Len(pRes.blob) : pRes.blob[j].content # entry.content
                /\ IssueTypesFor(pRes.report, entry.path) = <<DropType(entry.path, opts)>>
           ELSE /\ after.target # before.target
                /\ (opts.fixEncoding /\ fix.wasFixed) => written(fix.fixed)
                /\ ~(opts.fixEncoding /\ fix.wasFixed) => written(entry.path)

\* processZip resolved with removeHiddenFiles and without
\* removeMAcOSArtifacts: the artifact that is also hidden was dropped by the
\* third check, and the repairable entry was written under its repaired name
C12_Witness ==
  /\ processed
  /\ archive = <<PATH_ARTIFACT_HIDDEN, PATH_LATIN_PAIR>>
  /\ ~pRes.options.removeMAcOSArtifacts
  /\ pRes.options.removeHiddenFiles
  /\ pRes.options.fixEncoding
  /\ IssueTypesFor(pRes.report, PATH_ARTIFACT_HIDDEN) = <<"hidden_file">>
  /\ pRes.blob = <<[path |-> <<176, 67>>, content |-> 2]>>

(* C13 *)

README_TXT == SCENARIO_A[3]

\* C13: under the default options the output of processZip holds exactly
\* the non-directory entries that are neither metadata artifacts nor
\* settings files, totalFiles counts every non-directory entry, and for
\* ["__MACOSX/._doc.txt", ".DS_Store", "readme.txt"] the report has
\* macosArtifacts = 1, dsStoreFiles = 1, totalFiles = 3 and the output holds
\* only readme.txt.
C13_DefaultOptionsOutput ==
  (processed /\ pRes.options = DEFAULT_OPTIONS) =>
    LET kept == {k \in FileEntries :
                   /\ ~isMacOSArtifact(SourceEntries[k].path)
                   /\ ~isDSStore(SourceEntries[k].path)}
    IN /\ {pRes.blob[j].content : j \in 1..Len(pRes.blob)}
            = {SourceEntries[k].content : k \in kept}
       /\ Len(pRes.blob) = Cardinality(kept)
       /\ pRes.report.totalFiles = Cardinality(FileEntries)
       /\ archive = SCENARIO_A =>
            /\ pRes.report.macosArtifacts = 1
            /\ pRes.report.dsStoreFiles = 1
            /\ pRes.report.totalFiles = 3
            /\ pRes.blob = <<[path |-> README_TXT, content |-> 3]>>

\* the scenario alone
ScenarioA ==
  (processed /\ pRes.options = DEFAULT_OPTIONS /\ archive = SCENARIO_A) =>
    /\ pRes.report.macosArtifacts = 1
    /\ pRes.report.dsStoreFiles = 1
    /\ pRes.report.totalFiles = 3
    /\ pRes.blob = <<[path |-> README_TXT, content |-> 3]>>

(* C14 *)

\* the hidden entries processZip keeps when removeHiddenFiles is off
HiddenKept(opts) ==
  {k \in KeptEntries(opts) : isHiddenFile(SourceEntries[k].path)}

\* C14: with removeHiddenFiles = false in processZip, every hidden entry
\* that is not dropped as a metadata artifact or settings file is counted in
\* hiddenFiles and its payload is still in the output archive.
C14_HiddenKeptWhenNotRemoved ==
  (processed /\ ~pRes.options.removeHiddenFiles) =>
    /\ pRes.report.hiddenFiles = Cardinality(HiddenKept(pRes.options))
    /\ \A k \in HiddenKept(pRes.options) :
         \E j \in 1..Len(pRes.blob) : pRes.blob[j].content = SourceEntries[k].content

\* the counting half of C14 alone
HiddenCounted ==
  (processed /\ ~pRes.options.removeHiddenFiles) =>
    pRes.report.hiddenFiles = Cardinality(HiddenKept(pRes.options))

(* C15 *)

PureAscii(path) == \A i \in 1..Len(path) : path[i] < 128

\* no '/'-separated segment is "__MACOSX" and none starts with '.'
PlainSegments(path) ==
  LET parts == split(path, 47)
  IN \A k \in 1..Len(parts) :
       /\ parts[k] # SubSeq(MACOSX_DIR, 1, Len(MACOSX_DIR) - 1)
       /\ ~startsWith(parts[k], DOT)

\* C15: for an archive whose entry paths are all pure ASCII with no
\* "__MACOSX" component and no segment starting with '.', analyzeZip returns
\* an empty issue list, four zero counters and encodingConfidence = 0; and a
\* pure-ASCII path is never reported as repaired.
C15_PlainAsciiArchiveIsClean ==
  /\ \A i \in 1..Len(archive) :
       PureAscii(archive[i]) => ~fixFilenameEncoding(archive[i]).wasFixed
  /\ (/\ analyzed
      /\ \A i \in 1..Len(archive) : PureAscii(archive[i]) /\ PlainSegments(archive[i]))
       => /\ aRes.report.issues = <<>>
          /\ aRes.report.macosArtifacts = 0
          /\ aRes.report.dsStoreFiles = 0
          /\ aRes.report.encodingIssues = 0
          /\ aRes.report.hiddenFiles = 0
          /\ aRes.report.encodingConfidence = 0

\* the repair half of C15 alone
AsciiNeverRepaired ==
  \A i \in 1..Len(archive) :
    PureAscii(archive[i]) => ~fixFilenameEncoding(archive[i]).wasFixed

(* C16 *)

\* the position at which a name is first met in a list of names
FirstAt(names, p) ==
  CHOOSE i \in 1..Len(names) : names[i] = p /\ \A j \in 1..(i - 1) : names[j] # p

\* the issues of a report follow the order of the names, and within one
\* name the hidden_file issue comes before the encoding issue
InEncounterOrder(report, names) ==
  \A i, j \in 1..Len(report.issues) :
    i < j =>
      LET a == report.issues[i]
          b == report.issues[j]
      IN \/ FirstAt(names, a.originalPath) < FirstAt(names, b.originalPath)
         \/ /\ a.originalPath = b.originalPath
            /\ a.type = "hidden_file"
            /\ b.type = "encoding"

Distinct(names) == Cardinality({names[i] : i \in 1..Len(names)}) = Len(names)

\* C16: the issue list of every report is in archive encounter order: the
\* issues of an entry that precedes another in the source come before the
\* issues of the other, and within one entry hidden_file precedes encoding.
C16_IssuesInEncounterOrder ==
  /\ \A report \in ZipReports : InEncounterOrder(report, archive)
  /\ (created /\ Distinct(archive)) => InEncounterOrder(pRes.report, archive)

\* analyzeZip and processZip resolved with three issues from two entries,
\* the first of them with a hidden_file and an encoding issue
C16_Witness ==
  /\ analyzed
  /\ processed
  /\ archive = <<PATH_HIDDEN_DAMAGED, PATH_ARTIFACT_HIDDEN>>
  /\ [n \in 1..Len(aRes.report.issues) |-> aRes.report.issues[n].type]
       = <<"hidden_file", "encoding", "macos_artifact">>
  /\ Len(pRes.report.issues) = 2

(* C17 *)

\* C17: in every report of any operation an issue carries a fixedPath
\* exactly when its type is 'encoding'; the fixedPath is then the repair
\* result for originalPath, differs from originalPath and does not look
\* damaged.
C17_FixedPathOnlyOnEncoding ==
  \A report \in AllReports :
    \A n \in 1..Len(report.issues) :
      LET issue == report.issues[n]
          fix == fixFilenameEncoding(issue.originalPath)
      IN /\ issue.fixedPath # <<>> <=> issue.type = "encoding"
         /\ issue.type = "encoding" =>
              /\ fix.wasFixed
              /\ issue.fixedPath = <<fix.fixed>>
              /\ fix.fixed # issue.originalPath
              /\ ~hasEncodingIssues(fix.fixed)

\* a report with an encoding issue for a name repaired through the damaged
\* branch, another for a name repaired through the clean byte-pair branch,
\* and an issue of another type
C17_Witness ==
  \E report \in ZipReports :
    /\ \E n \in 1..Len(report.issues) :
         /\ report.issues[n].type = "encoding"
         /\ hasEncodingIssues(report.issues[n].originalPath)
    /\ \E n \in 1..Len(report.issues) :
         /\ report.issues[n].type = "encoding"
         /\ ~hasEncodingIssues(report.issues[n].originalPath)
    /\ \E n \in 1..Len(report.issues) : report.issues[n].type = "hidden_file"

(* C18 *)

\* C18: if loading the container fails, or reading the payload of an entry
\* fails at any position of the pass, processZip ends in failure and returns
\* neither an output archive nor a report; analyzeZip on a malformed
\* container returns no report either.
C18_FailureIsTerminal ==
  /\ (pRes.status # "none" /\ pRes.op = "processZip" /\ pRes.cause # "none") =>
       /\ pRes.status = "rejected"
       /\ DOMAIN pRes \cap {"blob", "report"} = {}
  /\ (pRes.status = "resolved" /\ pRes.op = "processZip") => pRes.cause = "none"
  /\ aRes.status = "rejected" => "report" \notin DOMAIN aRes

\* processZip rejected on the second read, after the first entry was read
\* and written, and analyzeZip rejected on the same archive
C18_Witness ==
  /\ pRes.status = "rejected"
  /\ pRes.op = "processZip"
  /\ pRes.cause = "read"
  /\ pRes.at = 2
  /\ aRes.status = "rejected"

(* C19 *)

\* a file createZipFromFiles is to exclude under the options
Excluded(path, opts) ==
  \/ isDSStore(path) /\ opts.removeDSStore
  \/ isHiddenFile(path) /\ opts.removeHiddenFiles

\* C19: createZipFromFiles excludes a file exactly when it is a settings
\* file and removeDSStore, or a hidden file and removeHiddenFiles;
\* removeMAcOSArtifacts and fixEncoding change neither its output nor its
\* report, no path is renamed, and the report always has macosArtifacts = 0,
\* encodingIssues = 0 and encodingConfidence = 0.
C19_CreateAppliesTwoFilters ==
  created =>
    LET opts == pRes.options IN
    /\ \A i \in 1..Len(archive) :
         IF Excluded(archive[i], opts)
           THEN \A j \in 1..Len(pRes.blob) : pRes.blob[j].content # i
           ELSE \E j \in 1..Len(pRes.blob) :
                  /\ pRes.blob[j].path = archive[i]
                  /\ Distinct(archive) => pRes.blob[j].content = i
    /\ \A j \in 1..Len(pRes.blob) :
         \E i \in 1..Len(archive) :
           /\ ~Excluded(archive[i], opts)
           /\ pRes.blob[j] = [path |-> archive[i], content |-> i]
    /\ \A artifacts, encoding \in BOOLEAN :
         LET other == createZipFromFiles(archive,
                        [opts EXCEPT !.removeMAcOSArtifacts = artifacts,
                                     !.fixEncoding = encoding])
         IN other.blob = pRes.blob /\ other.report = pRes.report
    /\ pRes.report.macosArtifacts = 0
    /\ pRes.report.encodingIssues = 0
    /\ pRes.report.encodingConfidence = 0

\* createZipFromFiles resolved with removeMAcOSArtifacts and fixEncoding on
\* a list holding a metadata artifact and a repairable name: both are in the
\* output under their own paths
C19_Witness ==
  /\ created
  /\ pRes.options.removeMAcOSArtifacts
  /\ pRes.options.fixEncoding
  /\ ~pRes.options.removeHiddenFiles
  /\ archive = <<PATH_ARTIFACT_HIDDEN, PATH_LATIN_PAIR>>
  /\ fixFilenameEncoding(PATH_LATIN_PAIR).wasFixed
  /\ pRes.blob = <<[path |-> PATH_ARTIFACT_HIDDEN, content |-> 1],
                   [path |-> PATH_LATIN_PAIR, content |-> 2]>>

(* C20 *)

\* the final '/'-separated segment of a path
FinalSegment(path) == split(path, 47)[Len(split(path, 47))]

\* C20: isDSStore(path) is true if and only if the final '/'-separated
\* segment of path is exactly ".DS_Store", for every string path, the empty
\* one and those without '/' included.
C20_IsDSStoreFinalSegment ==
  cOut.status = "returned" => (cOut.isDSStore <=> FinalSegment(cPath) = DS_STORE)

(* C21 *)

\* U+FFFD, the byte-order mark U+FEFF, the non-characters U+FFFE and U+FFFF,
\* or a C1 control
DamageMark(unit) == unit \in {65533, 65279, 65534, 65535} \/ unit \in 128..159

\* C21: hasEncodingIssues(text) is true if and only if text contains the
\* replacement character U+FFFD, a byte-order mark U+FEFF, a non-character
\* U+FFFE or U+FFFF, or a code point in the C1 control range 0x80-0x9F.
C21_HasEncodingIssuesCriterion ==
  (dOut.status = "returned" /\ dIn.kind = "string") =>
    (dOut.result <=> \E i \in 1..Len(dIn.value) : DamageMark(dIn.value[i]))

(* C22 *)

\* an iteration that incremented both dsStoreFiles and hiddenFiles
CountedTwice(before, after) ==
  after.dsStoreFiles > before.dsStoreFiles /\ after.hiddenFiles > before.hiddenFiles

\* the run of analyzeZip before it visits the entry at position k
AnalyzeRunBefore(k) == analyzeLoop(SubSeq(SourceEntries, 1, k - 1), 1, NewRun)

\* the run of createZipFromFiles before it visits the file at position i
CreateRunBefore(i, opts) == createLoop(SubSeq(archive, 1, i - 1), 1, NewRun, opts)

\* C22: no entry is counted both as a settings file and as a hidden file:
\* in analyzeZip, processZip (any options) and createZipFromFiles (any
\* options) the iteration that increments dsStoreFiles for an entry does not
\* increment hiddenFiles.
C22_NoDsStoreHiddenDoubleCount ==
  /\ analyzed =>
       \A k \in FileEntries :
         ~CountedTwice(AnalyzeRunBefore(k),
                       analyzeEntry(AnalyzeRunBefore(k), SourceEntries[k].path))
  /\ processed =>
       \A k \in FileEntries :
         ~CountedTwice(RunBefore(k, pRes.options),
                       processEntry(RunBefore(k, pRes.options), SourceEntries[k],
                                    pRes.options))
  /\ created =>
       \A i \in 1..Len(archive) :
         ~CountedTwice(CreateRunBefore(i, pRes.options),
                       createEntry(CreateRunBefore(i, pRes.options), archive[i], i,
                                   pRes.options))

\* the analyzeZip part of C22 alone
AnalyzeCountsOnce ==
  analyzed =>
    \A k \in FileEntries :
      ~CountedTwice(AnalyzeRunBefore(k),
                    analyzeEntry(AnalyzeRunBefore(k), SourceEntries[k].path))

(* C23 *)

\* the issues a report records for a path
IssuesFor(report, path) ==
  LET forPath(issue) == issue.originalPath = path
  IN SelectSeq(report.issues, forPath)

\* C23: in analyzeZip and processZip the issues recorded for an entry, its
\* keep/drop decision and its final path are those of the archive holding
\* that entry alone (under the same options): they depend on the entry's
\* own path only, not on the other entries or on the order.
C23_PerEntryIndependence ==
  /\ analyzed =>
       \A k \in FileEntries :
         IssuesFor(aRes.report, SourceEntries[k].path)
           = analyzeZip(<<SourceEntries[k].path>>).issues
  /\ processed =>
       \A k \in FileEntries :
         LET entry == SourceEntries[k]
             alone == processZip(<<entry.path>>, pRes.options)
             before == RunBefore(k, pRes.options)
             after == processEntry(before, entry, pRes.options)
         IN /\ IssuesFor(pRes.report, entry.path) = alone.report.issues
            /\ alone.blob = <<>> <=> after.target = before.target
            /\ alone.blob # <<>> =>
                 \E j \in 1..Len(after.target) :
                   after.target[j] = [path |-> alone.blob[1].path, content |-> entry.content]

\* analyzeZip and processZip resolved on an archive of two entries with
\* issues, the second a hidden entry that is kept and renamed
C23_Witness ==
  /\ analyzed
  /\ processed
  /\ archive = <<PATH_ARTIFACT_HIDDEN, PATH_HIDDEN_DAMAGED>>
  /\ pRes.options.fixEncoding
  /\ ~pRes.options.removeHiddenFiles
  /\ Len(aRes.report.issues) = 3
  /\ \E j \in 1..Len(pRes.blob) : pRes.blob[j] = [path |-> PATH_HIDDEN_KOREAN, content |-> 2]

(* C25 *)

\* C25: for a byte-representable path that does not look damaged,
\* fixFilenameEncoding reports wasFixed = true, with the euc-kr decode as the
\* fixed name, if and only if the code units read as bytes satisfy
\* isLikelyEUCKR and the strict euc-kr decode of those bytes succeeds with a
\* result that does not look damaged; otherwise the path is returned
\* unchanged with wasFixed = false, shift-jis and gbk not being tried.
C25_CleanBranchKoreanOnly ==
  (/\ rOut.status = "returned"
   /\ ~NotByteRepresentable(rIn)
   /\ ~hasEncodingIssues(rIn))
    => LET bytes == charCodeBytes(rIn) IN
       IF isLikelyEUCKR(bytes) /\ Clean(tryDecodeEUCKR(bytes))
         THEN rOut.result = [fixed |-> tryDecodeEUCKR(bytes).str, wasFixed |-> TRUE]
         ELSE rOut.result = [fixed |-> rIn, wasFixed |-> FALSE]

\* a clean byte-representable name with a byte pair that euc-kr cannot
\* decode and gbk decodes cleanly came back unchanged
C25_Witness ==
  /\ rOut.status = "returned"
  /\ ~NotByteRepresentable(rIn)
  /\ ~hasEncodingIssues(rIn)
  /\ isLikelyEUCKR(charCodeBytes(rIn))
  /\ ~Clean(tryDecodeEUCKR(charCodeBytes(rIn)))
  /\ Clean(tryDecodeGBK(charCodeBytes(rIn)))
  /\ rOut.result = [fixed |-> rIn, wasFixed |-> FALSE]

(* C26 *)

\* a lead byte in 0x81..0xFE followed by a trail byte in 0x41..0xFE
LegacyPairAt(bytes, i) ==
  /\ bytes[i] >= 129 /\ bytes[i] <= 254
  /\ bytes[i + 1] >= 65 /\ bytes[i + 1] <= 254

\* C26: isLikelyEUCKR(bytes) is true if and only if some adjacent pair
\* bytes[i], bytes[i+1] has bytes[i] in 0x81..0xFE and bytes[i+1] in
\* 0x41..0xFE; the non-overlapping scan misses no qualifying pair, and the
\* result is false for sequences of length 0 or 1.
C26_IsLikelyEUCKRCriterion ==
  (dOut.status = "returned" /\ dIn.kind = "bytes") =>
    /\ dOut.result <=> \E i \in 1..(Len(dIn.value) - 1) : LegacyPairAt(dIn.value, i)
    /\ Len(dIn.value) <= 1 => ~dOut.result

\* the scan returned true for bytes whose only qualifying pair starts at the
\* second byte, and for bytes with two overlapping qualifying pairs
C26_Witness ==
  /\ dOut.status = "returned"
  /\ dIn.kind = "bytes"
  /\ dOut.result
  /\ dIn.value \in {<<64, 129, 65>>, <<129, 129, 65>>}

(* C27 *)

\* C27: with fixEncoding = false processZip never renames: every kept entry
\* is in the output under its original path with its payload, the report
\* has no 'encoding' issue and encodingIssues = 0, and encodingConfidence is
\* at most 40, whatever the entry names are.
C27_NoRenameWithoutFixEncoding ==
  (processed /\ ~pRes.options.fixEncoding) =>
    /\ \A k \in KeptEntries(pRes.options) :
         \E j \in 1..Len(pRes.blob) : pRes.blob[j] = SourceEntries[k]
    /\ IssueCount(pRes.report, "encoding") = 0
    /\ pRes.report.encodingIssues = 0
    /\ pRes.report.encodingConfidence <= 40

\* processZip without fixEncoding resolved on an archive with a settings
\* file and a repairable name that was kept as it is
C27_Witness ==
  /\ processed
  /\ ~pRes.options.fixEncoding
  /\ pRes.report.encodingConfidence = 40
  /\ \E k \in KeptEntries(pRes.options) :
       /\ fixFilenameEncoding(SourceEntries[k].path).wasFixed
       /\ \E j \in 1..Len(pRes.blob) : pRes.blob[j] = SourceEntries[k]

(* C28 *)

\* the fields of a report other than the issue list
Counters(report) ==
  [totalFiles |-> report.totalFiles, macosArtifacts |-> report.macosArtifacts,
   dsStoreFiles |-> report.dsStoreFiles, hiddenFiles |-> report.hiddenFiles,
   encodingIssues |-> report.encodingIssues,
   encodingConfidence |-> report.encodingConfidence]

\* C28: for every archive, the report of processZip with the default
\* options has the same totalFiles, macosArtifacts, dsStoreFiles,
\* hiddenFiles, encodingIssues and encodingConfidence as the report of
\* analyzeZip on the same archive.
C28_PreviewAgreesWithCommit ==
  (analyzed /\ processed /\ pRes.options = DEFAULT_OPTIONS) =>
    Counters(pRes.report) = Counters(aRes.report)

\* both resolved, under the default options, on an archive with an
\* artifact and a hidden entry of repairable name
C28_Witness ==
  /\ analyzed
  /\ processed
  /\ pRes.options = DEFAULT_OPTIONS
  /\ pRes.report.macosArtifacts > 0
  /\ pRes.report.hiddenFiles > 0
  /\ pRes.report.encodingIssues > 0

(* C29 *)

\* the entries an iteration of processZip wrote nothing for
DroppedByPass(opts) ==
  {k \in FileEntries :
     processEntry(RunBefore(k, opts), SourceEntries[k], opts).target
       = RunBefore(k, opts).target}

\* the entries an iteration of processZip wrote to the target archive
WrittenByPass(opts) ==
  {k \in FileEntries :
     processEntry(RunBefore(k, opts), SourceEntries[k], opts).processedFiles
       = RunBefore(k, opts).processedFiles + 1}

\* C29: in processZip, for every archive and options, each non-directory
\* entry is either dropped or written, never both; every dropped entry has
\* exactly one issue in the report, of a non-encoding type, every
\* non-encoding issue names a dropped entry, and totalFiles is the number
\* of dropped entries plus the number of entries written to the target.
C29_RewriteAccounting ==
  processed =>
    LET dropped == DroppedByPass(pRes.options)
        written == WrittenByPass(pRes.options)
    IN /\ dropped \cup written = FileEntries
       /\ dropped \cap written = {}
       /\ \A k \in dropped :
            /\ Len(IssuesFor(pRes.report, SourceEntries[k].path)) = 1
            /\ IssuesFor(pRes.report, SourceEntries[k].path)[1].type # "encoding"
            /\ \A j \in 1..Len(pRes.blob) : pRes.blob[j].content # SourceEntries[k].content
       /\ \A n \in 1..Len(pRes.report.issues) :
            pRes.report.issues[n].type # "encoding" =>
              \E k \in dropped : SourceEntries[k].path = pRes.report.issues[n].originalPath
       /\ pRes.report.totalFiles = Cardinality(dropped) + Cardinality(written)

\* processZip resolved on an archive with a dropped artifact and a kept,
\* renamed entry: two issues, one of them of type encoding
C29_Witness ==
  /\ processed
  /\ archive = <<PATH_ARTIFACT_HIDDEN, PATH_LATIN_PAIR>>
  /\ DroppedByPass(pRes.options) = {1}
  /\ WrittenByPass(pRes.options) = {2}
  /\ Len(pRes.report.issues) = 2
  /\ pRes.report.totalFiles = 2

-----------------------------------------------------------------------------
(* The page *)

\* the file of every processZip the page has started had its analyzeZip
\* resolved before
ProcessedAfterAnalysis ==
  \A i \in 1..Len(pending) :
    pending[i].op = "processZip" => pending[i].file.id \in analyzedFiles

\* the panel shows a selected zip file that has not been committed
ShownBeforeCommit ==
  /\ PanelVisible
  /\ page.mode = "zip"
  /\ page.file # NULL
  /\ page.status \notin {"processing", "done"}

\* the report next to a selected zip file, before commit, is the report of
\* that file
ReportOfSelectedFile ==
  ShownBeforeCommit => page.report = analyzeZip(page.file.archive)

\* C24: in the zip flow of the page, processZip is started on a file only
\* after analyzeZip of that same file has resolved, and the report shown next
\* to the selected file before commit is the report of that file, under every
\* interleaving of selections, drops, mode clicks, resets, process clicks and
\* settlements of the pending promises.
C24_ProcessAfterOwnAnalysis == ProcessedAfterAnalysis /\ ReportOfSelectedFile

\* C30: whenever the status of the page is 'done', processedBlob is not null,
\* after any sequence of mode clicks, selections, drops in either mode and
\* process clicks.
C30_DoneHasProcessedBlob == page.status = "done" => page.processedBlob # NULL

====
